---- MODULE Spec2Model ----
(***************************************************************************)
(* Rebinding engine of the vJoy manager: shift-mode gating, the logical /  *)
(* reroute / virtual evaluation of RebindProcessor::process, the button    *)
(* modifiers, the activation-interval debouncer, Input::update and the     *)
(* configuration round trip.                                               *)
(*                                                                         *)
(* Time is counted in hundredths of a second (f64 seconds in the source):  *)
(* the code only adds, subtracts and compares times.                       *)
(***************************************************************************)
EXTENDS Integers, Sequences, FiniteSets, TLC

VARIABLES
    config,               \* Config {name, default_shift_mode, rebinds}: the rebinds the processor holds
    active_shift_mode,    \* RebindProcessor.active_shift_mode (u8)
    actions_order,        \* iteration order of the HashMap actions_map
    rebinds_order,        \* iteration order of the HashMap rebind_map
    physical_devices,     \* last polled snapshot: guid -> [present, buttons]
    virtual_devices,      \* cached vJoy state: id -> [buttons, axes]
    time,                 \* argument of the last Input::update call
    last_poll_time,       \* Input.last_poll_time
    last_plot_time,       \* Input.last_plot_time
    vjoy,                 \* the driver: how many state updates it got, and the last one
    trail,                \* the last two of the save and load operations
    result,               \* what the last Input::update returned
    log,                  \* rebind evaluations of the last processed tick, in order
    hist,                 \* per rebind: what its evaluations observed so far
    file,                 \* the configuration file on disk
    probe                 \* arguments and results of the pure functions under test

vars == <<config, active_shift_mode, actions_order, rebinds_order, physical_devices,
          virtual_devices, time, last_poll_time, last_plot_time, vjoy, trail, result, log,
          hist, file, probe>>

-----------------------------------------------------------------------------
(* Bounds of the model *)

MaxTime == 6            \* Input::update is not called with a later time
MaxTimeInterval == 9    \* the same, for the runs of the activation interval
MaxDt == 3              \* largest step of the clock between two updates
MaxTimeConfig == 4      \* Input::update is not called later in the runs with save and load

(* Program constants *)

MaskMax == 255                  \* ShiftModeMask(pub u8)
INPUT_POLL_INTERVAL == 1        \* 0.01 s
INPUT_PLOT_INTERVAL == 1        \* 0.01 s
NewShiftMode == 1               \* RebindProcessor::new: ShiftModeMask(0b00000001)

Guids == {"D1", "D2"}
NumVButtons == 3
NumVAxes == 1
AxisMax == 32767
TrimDen == 100                  \* trim values are multiples of 0.01

-----------------------------------------------------------------------------
(* u8 arithmetic *)

Pow2(n) == IF n = 0 THEN 1 ELSE IF n = 1 THEN 2 ELSE IF n = 2 THEN 4 ELSE IF n = 3 THEN 8
           ELSE IF n = 4 THEN 16 ELSE IF n = 5 THEN 32 ELSE IF n = 6 THEN 64
           ELSE IF n = 7 THEN 128 ELSE 256

Bit(x, i) == (x \div Pow2(i)) % 2

RECURSIVE BitAnd(_, _)
BitAnd(a, b) == IF a = 0 \/ b = 0 THEN 0
                ELSE (a % 2) * (b % 2) + 2 * BitAnd(a \div 2, b \div 2)

RECURSIVE BitOr(_, _)
BitOr(a, b) == IF a = 0 THEN b ELSE IF b = 0 THEN a
               ELSE (IF a % 2 = 1 \/ b % 2 = 1 THEN 1 ELSE 0) + 2 * BitOr(a \div 2, b \div 2)

RECURSIVE BitXor(_, _)
BitXor(a, b) == IF a = 0 THEN b ELSE IF b = 0 THEN a
                ELSE (IF a % 2 # b % 2 THEN 1 ELSE 0) + 2 * BitXor(a \div 2, b \div 2)

BitNot(a) == BitXor(a, 255)

-----------------------------------------------------------------------------
(* Gating: Rebind::is_active and the same loop in RebindProcessor::process *)

is_active_low7(mode_mask, shift_mode) ==
    LET inv_required_mask == BitXor(mode_mask, 255)
        is_active_bits == BitOr(shift_mode, inv_required_mask)
    IN  \A bit \in 0..6 : BitAnd(is_active_bits, Pow2(bit)) # 0

is_active(mode_mask, shift_mode) ==
    LET inv_required_mask == BitXor(mode_mask, 255)
        is_active_bits == BitOr(shift_mode, inv_required_mask)
    IN  \A bit \in 0..7 : BitAnd(is_active_bits, Pow2(bit)) # 0

-----------------------------------------------------------------------------
(* Validation of device and channel references *)

Failed == [ok |-> FALSE, val |-> FALSE]

validate_value_physical_button(devs, src_device, src_button) ==
    IF /\ src_device \in DOMAIN devs
       /\ devs[src_device].present
       /\ src_button >= 1
       /\ src_button <= Len(devs[src_device].buttons)
    THEN [ok |-> TRUE, val |-> devs[src_device].buttons[src_button]]
    ELSE Failed

validate_value_virtual_button(vdevs, src_device, src_button) ==
    IF /\ src_device \in DOMAIN vdevs
       /\ src_button >= 1
       /\ src_button <= Len(vdevs[src_device].buttons)
    THEN [ok |-> TRUE, val |-> (vdevs[src_device].buttons[src_button] = "Pressed")]
    ELSE Failed

validate_handle_virtual_button(vdevs, dst_device, dst_button) ==
    /\ dst_device \in DOMAIN vdevs
    /\ dst_button >= 1
    /\ dst_button <= Len(vdevs[dst_device].buttons)

validate_handle_virtual_axis(vdevs, dst_device, dst_axis) ==
    /\ dst_device \in DOMAIN vdevs
    /\ dst_axis >= 1
    /\ dst_axis <= Len(vdevs[dst_device].axes)

-----------------------------------------------------------------------------
(* ActivationIntervalParams::update: returns the new params and the latch *)

update(params, state, now, use_sustain) ==
    LET pressed_this_frame  == state /\ ~params.last_input
        released_this_frame == ~state /\ params.last_input
        activation_start == IF pressed_this_frame THEN now ELSE params.activation_start
        activation_end   == IF released_this_frame THEN now ELSE params.activation_end
        activation_length == now - activation_start
        activation_passed == now - activation_end
        activated_for_interval ==
            activation_length >= params.interval_start /\ activation_length < params.interval_end
        new_params == [params EXCEPT !.last_input = state,
                                     !.activation_start = activation_start,
                                     !.activation_end = activation_end]
        out == IF state \/ ~activated_for_interval THEN FALSE
               ELSE IF use_sustain
                    THEN IF params.sustain.some THEN activation_passed < params.sustain.val
                         ELSE released_this_frame
                    ELSE released_this_frame
    IN  [params |-> new_params, out |-> out]

-----------------------------------------------------------------------------
(* apply_button_modifier: returns the new ButtonState and the new modifier *)

Flip(button_state) == IF button_state = "Released" THEN "Pressed" ELSE "Released"

apply_button_modifier_level(input, output, modifier, now) ==
    IF modifier.modifier = "Toggle"
    THEN [state |-> IF input THEN Flip(output) ELSE output,
          modifier |-> [modifier EXCEPT !.last_input = input]]
    ELSE [state |-> IF input THEN "Pressed" ELSE "Released", modifier |-> modifier]

apply_button_modifier(input, output, modifier, now) ==
    CASE modifier.modifier = "Simple" ->
            [state |-> IF input THEN "Pressed" ELSE "Released", modifier |-> modifier]
      [] modifier.modifier = "Toggle" ->
            LET current_output_state == output
                should_toggle == input /\ input # modifier.last_input
            IN  [state |-> IF should_toggle THEN Flip(current_output_state)
                           ELSE current_output_state,
                 modifier |-> [modifier EXCEPT !.last_input = input]]
      [] modifier.modifier = "ActivationIntervalSimple" ->
            LET u == update(modifier.params, input, now, TRUE)
            IN  [state |-> IF u.out THEN "Pressed" ELSE "Released",
                 modifier |-> [modifier EXCEPT !.params = u.params]]
      [] modifier.modifier = "ActivationIntervalToggle" ->
            LET current_output_state == output
                u == update(modifier.params, input, now, FALSE)
            IN  [state |-> IF u.out THEN Flip(current_output_state)
                           ELSE current_output_state,
                 modifier |-> [modifier EXCEPT !.params = u.params]]

-----------------------------------------------------------------------------
(* apply_virtual_axis_trim_modifier.  value_normalized counts 1/TrimDen,   *)
(* accumulated counts 1/(TrimDen*100), delta_t counts 1/100 s.             *)

AccDen == TrimDen * 100

Clamp_below(v, lo, hi) == IF v < lo THEN lo ELSE v

Clamp(v, lo, hi) == IF v < lo THEN lo ELSE IF v > hi THEN hi ELSE v
Abs(v) == IF v < 0 THEN -v ELSE v

apply_virtual_axis_trim_modifier_reset_first(input, trim_neg, trim_pos, trim_reset, delta_t, modifier) ==
    LET params == modifier.params
        step == IF modifier.modifier = "Click" THEN params.value_normalized * 100
                ELSE params.value_normalized * delta_t
        acc0 == IF trim_reset THEN 0 ELSE params.accumulated
        acc1 == IF trim_neg /\ (modifier.modifier = "Linear" \/ ~params.last_input_neg)
                THEN acc0 - step ELSE acc0
        acc2 == IF trim_pos /\ (modifier.modifier = "Linear" \/ ~params.last_input_pos)
                THEN acc1 + step ELSE acc1
    IN  [value |-> Clamp(Abs(input * AccDen + acc2 * AxisMax) \div AccDen, 0, AxisMax),
         modifier |-> [modifier EXCEPT !.params.accumulated = acc2,
                                       !.params.last_input_neg = trim_neg,
                                       !.params.last_input_pos = trim_pos]]

apply_virtual_axis_trim_modifier(input, trim_neg, trim_pos, trim_reset, delta_t, modifier) ==
    LET params == modifier.params
        should_trim_neg == IF modifier.modifier = "Click"
                           THEN trim_neg /\ trim_neg # params.last_input_neg ELSE trim_neg
        should_trim_pos == IF modifier.modifier = "Click"
                           THEN trim_pos /\ trim_pos # params.last_input_pos ELSE trim_pos
        step == IF modifier.modifier = "Click" THEN params.value_normalized * 100
                ELSE params.value_normalized * delta_t
        acc1 == IF should_trim_neg THEN params.accumulated - step ELSE params.accumulated
        acc2 == IF should_trim_pos THEN acc1 + step ELSE acc1
        acc3 == Clamp(acc2, -AccDen, AccDen)
        acc4 == IF trim_reset THEN 0 ELSE acc3
        new_params == IF modifier.modifier = "Click"
                      THEN [params EXCEPT !.accumulated = acc4,
                                          !.last_input_neg = trim_neg,
                                          !.last_input_pos = trim_pos]
                      ELSE [params EXCEPT !.accumulated = acc4]
        \* (input / 32767 + accumulated) * 32767, abs, clamp, floor
        scaled == Abs(input * AccDen + acc4 * AxisMax)
    IN  [value |-> Clamp(scaled \div AccDen, 0, AxisMax),
         modifier |-> [modifier EXCEPT !.params = new_params]]

-----------------------------------------------------------------------------
(* One entry of the evaluation log *)

Entry(phase, idx, ok) ==
    [phase |-> phase, idx |-> idx, ok |-> ok, input |-> FALSE, mask |-> 0,
     before |-> "Released", after |-> "Released",
     seen |-> <<FALSE, FALSE, FALSE>>, axis_in |-> 0, axis_out |-> 0]

(* LogicalRebind::process *)

LogicalRebind_process_no_clear(rebind, devs, shift_mode) ==
    LET input == validate_value_physical_button(devs, rebind.src_device, rebind.src_button)
    IN  IF ~input.ok THEN [ok |-> FALSE, input |-> FALSE, mask |-> shift_mode]
        ELSE [ok |-> TRUE, input |-> input.val,
              mask |-> IF input.val /\ rebind.variant = "MomentaryEnableShiftMode"
                       THEN BitOr(shift_mode, rebind.shift_mask) ELSE shift_mode]

LogicalRebind_process(rebind, devs, shift_mode) ==
    LET input == validate_value_physical_button(devs, rebind.src_device, rebind.src_button)
        shift_mask == rebind.shift_mask
    IN  IF ~input.ok THEN [ok |-> FALSE, input |-> FALSE, mask |-> shift_mode]
        ELSE IF rebind.variant = "MomentaryEnableShiftMode"
        THEN [ok |-> TRUE, input |-> input.val,
              mask |-> IF input.val THEN BitOr(shift_mode, shift_mask)
                       ELSE BitAnd(shift_mode, BitNot(shift_mask))]
        ELSE [ok |-> TRUE, input |-> input.val,
              mask |-> IF input.val THEN BitAnd(shift_mode, BitNot(shift_mask))
                       ELSE BitOr(shift_mode, shift_mask)]

(* RerouteRebind::process, ButtonToButton *)

RerouteRebind_process_modifier_first(rebind, devs, vdevs, now, delta_t) ==
    LET input == validate_value_physical_button(devs, rebind.src_device, rebind.src_button)
        m == apply_button_modifier(input.val, "Released", rebind.modifier, now)
    IN  IF input.ok /\ validate_handle_virtual_button(vdevs, rebind.dst_device, rebind.dst_button)
        THEN [ok |-> TRUE,
              vdevs |-> [vdevs EXCEPT ![rebind.dst_device].buttons[rebind.dst_button] = m.state],
              rebind |-> [rebind EXCEPT !.modifier = m.modifier],
              input |-> input.val, before |-> "Released", after |-> m.state]
        ELSE [ok |-> FALSE, vdevs |-> vdevs, rebind |-> [rebind EXCEPT !.modifier = m.modifier],
              input |-> FALSE, before |-> "Released", after |-> "Released"]

RerouteRebind_process(rebind, devs, vdevs, now, delta_t) ==
    LET input == validate_value_physical_button(devs, rebind.src_device, rebind.src_button)
        output_ok == validate_handle_virtual_button(vdevs, rebind.dst_device, rebind.dst_button)
    IN  IF ~input.ok \/ ~output_ok
        THEN [ok |-> FALSE, vdevs |-> vdevs, rebind |-> rebind, input |-> FALSE,
              before |-> "Released", after |-> "Released"]
        ELSE LET output == vdevs[rebind.dst_device].buttons[rebind.dst_button]
                 m == apply_button_modifier(input.val, output, rebind.modifier, now)
             IN  [ok |-> TRUE,
                  vdevs |-> [vdevs EXCEPT ![rebind.dst_device].buttons[rebind.dst_button] = m.state],
                  rebind |-> [rebind EXCEPT !.modifier = m.modifier],
                  input |-> input.val, before |-> output, after |-> m.state]

(* VirtualRebind::process, VirtualAxisApplyButtonTrim *)

VirtualRebind_process(rebind, vdevs, delta_t) ==
    LET trim_neg == validate_value_virtual_button(vdevs, rebind.trim_neg_device, rebind.trim_neg_button)
        trim_pos == validate_value_virtual_button(vdevs, rebind.trim_pos_device, rebind.trim_pos_button)
        trim_reset == validate_value_virtual_button(vdevs, rebind.trim_reset_device, rebind.trim_reset_button)
        output_ok == validate_handle_virtual_axis(vdevs, rebind.axis_device, rebind.axis)
    IN  IF ~trim_neg.ok \/ ~trim_pos.ok \/ ~trim_reset.ok \/ ~output_ok
        THEN [ok |-> FALSE, vdevs |-> vdevs, rebind |-> rebind,
              seen |-> <<FALSE, FALSE, FALSE>>, axis_in |-> 0, axis_out |-> 0]
        ELSE LET output == vdevs[rebind.axis_device].axes[rebind.axis]
                 m == apply_virtual_axis_trim_modifier(output, trim_neg.val, trim_pos.val,
                                                       trim_reset.val, delta_t, rebind.modifier)
             IN  [ok |-> TRUE,
                  vdevs |-> [vdevs EXCEPT ![rebind.axis_device].axes[rebind.axis] = m.value],
                  rebind |-> [rebind EXCEPT !.modifier = m.modifier],
                  seen |-> <<trim_neg.val, trim_pos.val, trim_reset.val>>,
                  axis_in |-> output, axis_out |-> m.value]

-----------------------------------------------------------------------------
(* RebindProcessor.  add_action and add_rebind push onto the Vec kept per  *)
(* source device, so each Vec holds its rebinds in the order they were     *)
(* added, which is the order of the configuration list.                    *)

Indices(rebinds) == [i \in 1..Len(rebinds) |-> i]

actions_map(rebinds) ==
    [d \in Guids |-> SelectSeq(Indices(rebinds),
        LAMBDA i : rebinds[i].rebind_type = "Logical" /\ rebinds[i].src_device = d)]

rebind_map(rebinds) ==
    [d \in Guids |-> SelectSeq(Indices(rebinds),
        LAMBDA i : rebinds[i].rebind_type = "Reroute" /\ rebinds[i].src_device = d)]

virtual_list(rebinds) ==
    SelectSeq(Indices(rebinds), LAMBDA i : rebinds[i].rebind_type = "Virtual")

(* for action in actions.iter_mut() { action.process(..)?; } *)
RECURSIVE process_actions(_, _, _, _)
process_actions(st, devs, vec, k) ==
    IF st.err \/ k > Len(vec) THEN st
    ELSE LET i == vec[k]
             r == LogicalRebind_process(st.rb[i], devs, st.mask)
             e == [Entry("Logical", i, r.ok) EXCEPT !.input = r.input, !.mask = r.mask]
         IN  IF ~r.ok THEN [st EXCEPT !.err = TRUE, !.log = Append(@, e)]
             ELSE process_actions([st EXCEPT !.mask = r.mask, !.log = Append(@, e)],
                                  devs, vec, k + 1)

(* for (ident, actions) in self.actions_map.iter_mut() *)
RECURSIVE iterate_actions(_, _, _, _)
iterate_actions(st, devs, order, n) ==
    IF st.err \/ n > Len(order) THEN st
    ELSE iterate_actions(process_actions(st, devs, actions_map(st.rb)[order[n]], 1),
                         devs, order, n + 1)

(* for rebind in rebinds.iter_mut() { if active { rebind.process(..)?; } } *)
RECURSIVE process_rebinds(_, _, _, _, _, _)
process_rebinds(st, devs, vec, k, now, delta_t) ==
    IF st.err \/ k > Len(vec) THEN st
    ELSE LET i == vec[k]
             active == is_active(st.rb[i].mode_mask, st.mask)
             r == RerouteRebind_process(st.rb[i], devs, st.vd, now, delta_t)
             e == [Entry("Reroute", i, r.ok) EXCEPT !.input = r.input, !.mask = st.mask,
                                                     !.before = r.before, !.after = r.after]
         IN  IF ~active THEN process_rebinds(st, devs, vec, k + 1, now, delta_t)
             ELSE IF ~r.ok THEN [st EXCEPT !.err = TRUE, !.log = Append(@, e)]
             ELSE process_rebinds([st EXCEPT !.vd = r.vdevs, !.rb[i] = r.rebind,
                                             !.log = Append(@, e)],
                                  devs, vec, k + 1, now, delta_t)

(* for (ident, rebinds) in self.rebind_map.iter_mut() *)
RECURSIVE iterate_rebinds(_, _, _, _, _, _)
iterate_rebinds(st, devs, order, n, now, delta_t) ==
    IF st.err \/ n > Len(order) THEN st
    ELSE iterate_rebinds(process_rebinds(st, devs, rebind_map(st.rb)[order[n]], 1, now, delta_t),
                         devs, order, n + 1, now, delta_t)

(* Phase 3: each active virtual rebind in list order; a failure skips the rebind *)
RECURSIVE iterate_virtuals(_, _, _, _)
iterate_virtuals(st, vec, k, delta_t) ==
    IF st.err \/ k > Len(vec) THEN st
    ELSE LET i == vec[k]
             active == is_active(st.rb[i].mode_mask, st.mask)
             r == VirtualRebind_process(st.rb[i], st.vd, delta_t)
             e == [Entry("Virtual", i, r.ok) EXCEPT !.mask = st.mask, !.seen = r.seen,
                                                     !.axis_in = r.axis_in, !.axis_out = r.axis_out]
         IN  IF ~active THEN iterate_virtuals(st, vec, k + 1, delta_t)
             ELSE IF ~r.ok THEN iterate_virtuals([st EXCEPT !.log = Append(@, e)], vec, k + 1, delta_t)
             ELSE iterate_virtuals([st EXCEPT !.vd = r.vdevs, !.rb[i] = r.rebind,
                                              !.log = Append(@, e)],
                                   vec, k + 1, delta_t)

(* RebindProcessor::process on a clone of the cached vJoy state *)

process_reroute_first(rebinds, shift_mode, a_order, r_order, devs, vdevs, now, delta_t) ==
    LET st0 == [mask |-> shift_mode, vd |-> vdevs, rb |-> rebinds, log |-> <<>>, err |-> FALSE]
        st1 == iterate_rebinds(st0, devs, r_order, 1, now, delta_t)
        st2 == iterate_actions(st1, devs, a_order, 1)
    IN  iterate_virtuals(st2, virtual_list(st2.rb), 1, delta_t)

process(rebinds, shift_mode, a_order, r_order, devs, vdevs, now, delta_t) ==
    LET st0 == [mask |-> shift_mode, vd |-> vdevs, rb |-> rebinds, log |-> <<>>, err |-> FALSE]
        st1 == iterate_actions(st0, devs, a_order, 1)
        st2 == iterate_rebinds(st1, devs, r_order, 1, now, delta_t)
    IN  iterate_virtuals(st2, virtual_list(st2.rb), 1, delta_t)

-----------------------------------------------------------------------------
(* Configurations *)

Simple == [modifier |-> "Simple"]
Toggle == [modifier |-> "Toggle", last_input |-> FALSE]

ActivationIntervalParams(interval_start, interval_end, sustain) ==
    [interval_start |-> interval_start, interval_end |-> interval_end, sustain |-> sustain,
     last_input |-> FALSE, activation_start |-> 0, activation_end |-> 0]

Some(v) == [some |-> TRUE, val |-> v]
None == [some |-> FALSE, val |-> 0]

ActivationIntervalSimple(interval_start, interval_end, sustain) ==
    [modifier |-> "ActivationIntervalSimple",
     params |-> ActivationIntervalParams(interval_start, interval_end, sustain)]

ActivationIntervalToggle(interval_start, interval_end, sustain) ==
    [modifier |-> "ActivationIntervalToggle",
     params |-> ActivationIntervalParams(interval_start, interval_end, sustain)]

VirtualAxisTrimParams(value_normalized) ==
    [value_normalized |-> value_normalized, accumulated |-> 0,
     last_input_neg |-> FALSE, last_input_pos |-> FALSE]

TrimClick(value_normalized) ==
    [modifier |-> "Click", params |-> VirtualAxisTrimParams(value_normalized)]

Logical(name, mode_mask, variant, src_device, src_button, shift_mask) ==
    [name |-> name, mode_mask |-> mode_mask, rebind_type |-> "Logical", variant |-> variant,
     src_device |-> src_device, src_button |-> src_button, shift_mask |-> shift_mask]

ButtonToButton(name, mode_mask, src_device, src_button, dst_device, dst_button, modifier) ==
    [name |-> name, mode_mask |-> mode_mask, rebind_type |-> "Reroute",
     variant |-> "ButtonToButton", src_device |-> src_device, src_button |-> src_button,
     dst_device |-> dst_device, dst_button |-> dst_button, modifier |-> modifier]

VirtualAxisApplyButtonTrim(name, mode_mask, axis, trim_neg_button, trim_pos_button, trim_reset_button, modifier) ==
    [name |-> name, mode_mask |-> mode_mask, rebind_type |-> "Virtual",
     variant |-> "VirtualAxisApplyButtonTrim", axis_device |-> 1, axis |-> axis,
     trim_neg_device |-> 1, trim_neg_button |-> trim_neg_button,
     trim_pos_device |-> 1, trim_pos_button |-> trim_pos_button,
     trim_reset_device |-> 1, trim_reset_button |-> trim_reset_button,
     modifier |-> modifier]

(* Scenario 1 of the specification: momentary shift enable *)
ConfigMomentary ==
    [name |-> "Momentary", default_shift_mode |-> 0, rebinds |-> <<
        Logical("Enable_Shift_0b10000000", 0, "MomentaryEnableShiftMode", "D1", 1, 128),
        ButtonToButton("Button_2_To_2", 128, "D1", 2, 1, 2, Simple) >>]

(* Scenario 6: the two logical rebinds of Config::debug_xbox360_config,    *)
(* with a reroute listed before them, one after them, a trim and a reroute *)
(* listed after the trim *)
ConfigCascade ==
    [name |-> "Cascade", default_shift_mode |-> 1, rebinds |-> <<
        ButtonToButton("Button_2_To_1", 128, "D1", 2, 1, 1, Simple),
        Logical("Enable_Shift_0b10000000", 0, "MomentaryEnableShiftMode", "D1", 1, 128),
        Logical("Disable_Shift_0b00000001", 0, "MomentaryDisableShiftMode", "D1", 1, 1),
        ButtonToButton("Button_2_To_2", 1, "D1", 2, 1, 2, Simple),
        VirtualAxisApplyButtonTrim("Virtual_Axis_1_Button_Trim", 0, 1, 2, 1, 3, TrimClick(50)),
        ButtonToButton("Button_1_To_3", 0, "D1", 1, 1, 3, Simple) >>]

(* Two source devices writing one destination; the second device may be unplugged *)
ConfigTwoDevices ==
    [name |-> "TwoDevices", default_shift_mode |-> 1, rebinds |-> <<
        ButtonToButton("D1_Button_1_To_1", 0, "D1", 1, 1, 1, Simple),
        ButtonToButton("D2_Button_1_To_1", 0, "D2", 1, 1, 1, Simple),
        Logical("D2_Enable_Shift_0b00000010", 0, "MomentaryEnableShiftMode", "D2", 1, 2),
        ButtonToButton("D1_Button_2_To_2", 0, "D1", 2, 1, 2, Simple),
        VirtualAxisApplyButtonTrim("Virtual_Axis_1_Button_Trim", 0, 1, 1, 2, 3, TrimClick(50)) >>]

(* A gated Toggle next to a rebind of the second device *)
ConfigToggle ==
    [name |-> "Toggle", default_shift_mode |-> 1, rebinds |-> <<
        Logical("Enable_Shift_0b10000000", 0, "MomentaryEnableShiftMode", "D1", 2, 128),
        ButtonToButton("Button_1_To_3", 128, "D1", 1, 1, 3, Toggle),
        ButtonToButton("D2_Button_1_To_1", 0, "D2", 1, 1, 1, Simple) >>]

(* Activation interval with sustain *)
ConfigInterval ==
    [name |-> "Interval", default_shift_mode |-> 1, rebinds |-> <<
        ButtonToButton("Button_1_To_1", 0, "D1", 1, 1, 1, ActivationIntervalSimple(2, 5, Some(4))) >>]

(* Scenario 5: a Click trim of 0.5 on an axis that no reroute writes, its   *)
(* trim_pos and trim_reset buttons fed by two physical buttons             *)
ConfigTrim ==
    [name |-> "Trim", default_shift_mode |-> 1, rebinds |-> <<
        ButtonToButton("Button_1_To_1", 0, "D1", 1, 1, 1, Simple),
        ButtonToButton("Button_2_To_3", 0, "D1", 2, 1, 3, Simple),
        VirtualAxisApplyButtonTrim("Virtual_Axis_1_Button_Trim", 0, 1, 2, 1, 3, TrimClick(50)) >>]

Configs == {ConfigMomentary, ConfigCascade, ConfigTwoDevices, ConfigToggle}

Orders == {<<"D1", "D2">>, <<"D2", "D1">>}

Snapshot(b1, b2, p, c1) ==
    [d \in Guids |-> IF d = "D1" THEN [present |-> TRUE, buttons |-> <<b1, b2>>]
                     ELSE [present |-> p, buttons |-> <<p /\ c1>>]]

(* The snapshots in which the buttons and devices a configuration reads vary *)
UsesSecondDevice(cfg) == \E i \in 1..Len(cfg.rebinds) :
    cfg.rebinds[i].rebind_type # "Virtual" /\ cfg.rebinds[i].src_device = "D2"
UsesButton2(cfg) == \E i \in 1..Len(cfg.rebinds) :
    cfg.rebinds[i].rebind_type # "Virtual" /\ cfg.rebinds[i].src_button = 2

Snapshots(cfg) ==
    { Snapshot(b1, b2, p, c1) :
      b1 \in BOOLEAN,
      b2 \in IF UsesButton2(cfg) THEN BOOLEAN ELSE {FALSE},
      p \in IF UsesSecondDevice(cfg) THEN BOOLEAN ELSE {TRUE},
      c1 \in IF UsesSecondDevice(cfg) THEN BOOLEAN ELSE {FALSE} }

NoHist == [evaluated |-> FALSE, input |-> FALSE, prev_input |-> FALSE, eval_at |-> -1,
           press_at |-> -1, release_at |-> -1, flips |-> 0, rises |-> 0]
NoFile == [exists |-> FALSE, doc |-> <<>>]
NoProbe == [M |-> 0, R |-> 0, active |-> FALSE, done |-> FALSE]

-----------------------------------------------------------------------------
(* State after RebindProcessor::new and Input::new, the rebinds of one      *)
(* configuration added in list order *)

InitProcessor(cfgs) ==
    /\ config \in cfgs
    /\ active_shift_mode = NewShiftMode
    /\ actions_order \in Orders
    /\ rebinds_order \in Orders
    /\ physical_devices = Snapshot(FALSE, FALSE, TRUE, FALSE)
    /\ virtual_devices = [id \in {1} |-> [buttons |-> [b \in 1..NumVButtons |-> "Released"],
                                          axes |-> [a \in 1..NumVAxes |-> 0]]]
    /\ time = 0
    /\ last_poll_time = 0
    /\ last_plot_time = 0
    /\ vjoy = [updates |-> 0, devices |-> virtual_devices]
    /\ result = "none"
    /\ log = <<>>
    /\ hist = [i \in 1..Len(config.rebinds) |-> NoHist]
    /\ file = NoFile
    /\ trail = <<>>

InitWith(cfgs) == InitProcessor(cfgs) /\ probe = NoProbe

Init == InitWith(Configs)

(* What the evaluations of one tick add to the history of each rebind *)
RECURSIVE Observe(_, _, _, _)
Observe(h, entries, k, now) ==
    IF k > Len(entries) THEN h
    ELSE LET e == entries[k]
             old == h[e.idx]
             new == [evaluated |-> TRUE, input |-> e.input, prev_input |-> old.input,
                     eval_at |-> now,
                     press_at |-> IF e.input /\ ~old.input THEN now ELSE old.press_at,
                     release_at |-> IF ~e.input /\ old.input THEN now ELSE old.release_at,
                     flips |-> IF e.after # e.before THEN old.flips + 1 ELSE old.flips,
                     rises |-> IF e.input /\ ~old.input THEN old.rises + 1 ELSE old.rises]
         IN  Observe(IF e.ok /\ e.phase = "Reroute" THEN [h EXCEPT ![e.idx] = new] ELSE h,
                     entries, k + 1, now)

(* vjoy.update_device_state for every active virtual device: the cached    *)
(* state goes out to the driver *)
update_device_state(driver, vdevs) == [updates |-> driver.updates + 1, devices |-> vdevs]

(* Input::update goes on when delta_t <= INPUT_POLL_INTERVAL is false *)
PollDue_inclusive(delta_t) == delta_t >= INPUT_POLL_INTERVAL

PollDue(delta_t) == ~(delta_t <= INPUT_POLL_INTERVAL)

(* Input::update(time), called no later than max_time *)
Input_update(max_time) ==
    \E dt \in 1..MaxDt :
        LET now == time + dt
            delta_t == now - last_poll_time
            delta_plot == now - last_plot_time
            plot == delta_plot >= INPUT_PLOT_INTERVAL
        IN  /\ now <= max_time
            /\ time' = now
            /\ IF ~PollDue(delta_t)
               THEN /\ result' = "idle"
                    /\ UNCHANGED <<config, active_shift_mode, physical_devices,
                                   virtual_devices, last_poll_time, last_plot_time, vjoy, log, hist>>
               ELSE \E snapshot \in Snapshots(config) :
                    \E st \in {process(config.rebinds, active_shift_mode, actions_order,
                                       rebinds_order, snapshot, virtual_devices, now, delta_t)} :
                    /\ physical_devices' = snapshot
                    /\ config' = [config EXCEPT !.rebinds = st.rb]
                    /\ active_shift_mode' = st.mask
                    /\ log' = st.log
                    /\ hist' = Observe(hist, st.log, 1, now)
                    /\ IF st.err
                       THEN /\ result' = "err"
                            /\ UNCHANGED <<virtual_devices, last_poll_time, last_plot_time, vjoy>>
                       ELSE /\ result' = "ok"
                            /\ virtual_devices' = st.vd
                            /\ vjoy' = update_device_state(vjoy, st.vd)
                            /\ last_plot_time' = IF plot THEN now ELSE last_plot_time
                            /\ last_poll_time' = now
            /\ UNCHANGED <<actions_order, rebinds_order, file, probe, trail>>

Tick == Input_update(MaxTime)

Next == Tick

Spec == Init /\ [][Next]_vars

(* The trim on its own axis *)
InitTrim == InitWith({ConfigTrim})

TickTrim == Input_update(MaxTime)

NextTrim == TickTrim

SpecTrim == InitTrim /\ [][NextTrim]_vars

(* The activation interval, run over a longer time *)
InitInterval == InitWith({ConfigInterval})

TickInterval == Input_update(MaxTimeInterval)

NextInterval == TickInterval

SpecInterval == InitInterval /\ [][NextInterval]_vars

(* One ButtonToButton rebind with ActivationIntervalToggle, interval        *)
(* 0.03 s .. 0.06 s *)
ConfigIntervalToggle ==
    [name |-> "IntervalToggle", default_shift_mode |-> 1, rebinds |-> <<
        ButtonToButton("Button_1_To_1", 0, "D1", 1, 1, 1, ActivationIntervalToggle(3, 6, None)) >>]

InitIntervalToggle == InitWith({ConfigIntervalToggle})

SpecIntervalToggle == InitIntervalToggle /\ [][NextInterval]_vars

-----------------------------------------------------------------------------
(* The gating rule on its own: is_active applied to every pair of masks *)

InitGate ==
    /\ InitWith({ConfigMomentary})
    /\ actions_order = <<"D1", "D2">>
    /\ rebinds_order = <<"D1", "D2">>

ChooseMasks ==
    /\ result = "none"
    /\ \E M \in 0..MaskMax : \E R \in 0..MaskMax :
         probe' = [M |-> M, R |-> R, active |-> FALSE, done |-> FALSE]
    /\ result' = "chosen"
    /\ UNCHANGED <<config, active_shift_mode, actions_order, rebinds_order, physical_devices,
                   virtual_devices, time, last_poll_time, last_plot_time, vjoy, trail, log, hist, file>>

Gate ==
    /\ result = "chosen"
    /\ probe' = [probe EXCEPT !.active = is_active(probe.R, probe.M), !.done = TRUE]
    /\ result' = "gated"
    /\ UNCHANGED <<config, active_shift_mode, actions_order, rebinds_order, physical_devices,
                   virtual_devices, time, last_poll_time, last_plot_time, vjoy, trail, log, hist, file>>

NextGate == ChooseMasks \/ Gate

SpecGate == InitGate /\ [][NextGate]_vars

-----------------------------------------------------------------------------
(* Config persistence.  A document is what toml::to_string_pretty emits for *)
(* a Config: name, default_shift_mode and one table per rebind, a table     *)
(* being the key/value pairs in the order the derived Serialize emits them. *)

Has(table, key) == \E k \in 1..Len(table) : table[k][1] = key
Get(table, key) == table[CHOOSE k \in 1..Len(table) : table[k][1] = key][2]

(* ActivationIntervalParams: the three #[serde(skip_serializing)] fields    *)
(* are not emitted, a sustain of None is left out *)
ser_ActivationIntervalParams(params) ==
    << <<"interval_start", params.interval_start>>, <<"interval_end", params.interval_end>> >>
    \o (IF params.sustain.some THEN << <<"sustain", params.sustain.val>> >> ELSE << >>)

(* #[serde(default)]: a field is defaulted when its key is absent *)
de_ActivationIntervalParams(table) ==
    [interval_start |-> Get(table, "interval_start"),
     interval_end |-> Get(table, "interval_end"),
     sustain |-> IF Has(table, "sustain") THEN Some(Get(table, "sustain")) ELSE None,
     last_input |-> IF Has(table, "last_input") THEN Get(table, "last_input") ELSE FALSE,
     activation_start |-> IF Has(table, "activation_start") THEN Get(table, "activation_start") ELSE 0,
     activation_end |-> IF Has(table, "activation_end") THEN Get(table, "activation_end") ELSE 0]

(* ButtonToButtonModifier, #[serde(tag = "modifier")].  Toggle flattens a   *)
(* bool, and serde flattens structs and maps only: serializing it fails.    *)
ser_ButtonToButtonModifier(modifier) ==
    IF modifier.modifier = "Simple"
    THEN [ok |-> TRUE, table |-> << <<"modifier", "Simple">> >>]
    ELSE IF modifier.modifier = "Toggle"
    THEN [ok |-> FALSE, table |-> << >>]
    ELSE [ok |-> TRUE, table |-> << <<"modifier", modifier.modifier>> >>
                                   \o ser_ActivationIntervalParams(modifier.params)]

de_ButtonToButtonModifier(table) ==
    IF ~Has(table, "modifier") THEN [ok |-> FALSE, modifier |-> Simple]
    ELSE IF Get(table, "modifier") = "Simple" THEN [ok |-> TRUE, modifier |-> Simple]
    ELSE IF Get(table, "modifier") = "Toggle" THEN [ok |-> FALSE, modifier |-> Simple]
    ELSE [ok |-> TRUE, modifier |-> [modifier |-> Get(table, "modifier"),
                                     params |-> de_ActivationIntervalParams(table)]]

(* VirtualAxisTrimModifier over VirtualAxisTrimParams *)
ser_VirtualAxisTrimModifier(modifier) ==
    << <<"modifier", modifier.modifier>>,
       <<"value_normalized", modifier.params.value_normalized>> >>

de_VirtualAxisTrimModifier(table) ==
    [modifier |-> Get(table, "modifier"),
     params |-> [value_normalized |-> Get(table, "value_normalized"),
                 accumulated |-> IF Has(table, "accumulated") THEN Get(table, "accumulated") ELSE 0,
                 last_input_neg |-> IF Has(table, "last_input_neg")
                                    THEN Get(table, "last_input_neg") ELSE FALSE,
                 last_input_pos |-> IF Has(table, "last_input_pos")
                                    THEN Get(table, "last_input_pos") ELSE FALSE]]

(* Rebind: name, mode_mask, then the flattened RebindType *)
ser_Rebind(rebind) ==
    LET head == << <<"name", rebind.name>>, <<"mode_mask", rebind.mode_mask>>,
                   <<"rebind_type", rebind.rebind_type>>, <<"variant", rebind.variant>> >>
    IN  IF rebind.rebind_type = "Logical"
        THEN [ok |-> TRUE,
              table |-> head \o << <<"src_device", rebind.src_device>>,
                                   <<"src_button", rebind.src_button>>,
                                   <<"shift_mask", rebind.shift_mask>> >>]
        ELSE IF rebind.rebind_type = "Reroute"
        THEN LET m == ser_ButtonToButtonModifier(rebind.modifier)
             IN  [ok |-> m.ok,
                  table |-> head \o << <<"src_device", rebind.src_device>>,
                                       <<"src_button", rebind.src_button>>,
                                       <<"dst_device", rebind.dst_device>>,
                                       <<"dst_button", rebind.dst_button>> >> \o m.table]
        ELSE [ok |-> TRUE,
              table |-> head \o << <<"axis_device", rebind.axis_device>>,
                                   <<"axis", rebind.axis>>,
                                   <<"trim_neg_device", rebind.trim_neg_device>>,
                                   <<"trim_neg_button", rebind.trim_neg_button>>,
                                   <<"trim_pos_device", rebind.trim_pos_device>>,
                                   <<"trim_pos_button", rebind.trim_pos_button>>,
                                   <<"trim_reset_device", rebind.trim_reset_device>>,
                                   <<"trim_reset_button", rebind.trim_reset_button>> >>
                            \o ser_VirtualAxisTrimModifier(rebind.modifier)]

de_Rebind(table) ==
    IF Get(table, "rebind_type") = "Logical"
    THEN [ok |-> TRUE,
          rebind |-> Logical(Get(table, "name"), Get(table, "mode_mask"), Get(table, "variant"),
                             Get(table, "src_device"), Get(table, "src_button"),
                             Get(table, "shift_mask"))]
    ELSE IF Get(table, "rebind_type") = "Reroute"
    THEN LET m == de_ButtonToButtonModifier(table)
         IN  [ok |-> m.ok,
              rebind |-> ButtonToButton(Get(table, "name"), Get(table, "mode_mask"),
                                        Get(table, "src_device"), Get(table, "src_button"),
                                        Get(table, "dst_device"), Get(table, "dst_button"),
                                        m.modifier)]
    ELSE [ok |-> TRUE,
          rebind |-> [name |-> Get(table, "name"), mode_mask |-> Get(table, "mode_mask"),
                      rebind_type |-> "Virtual", variant |-> Get(table, "variant"),
                      axis_device |-> Get(table, "axis_device"), axis |-> Get(table, "axis"),
                      trim_neg_device |-> Get(table, "trim_neg_device"),
                      trim_neg_button |-> Get(table, "trim_neg_button"),
                      trim_pos_device |-> Get(table, "trim_pos_device"),
                      trim_pos_button |-> Get(table, "trim_pos_button"),
                      trim_reset_device |-> Get(table, "trim_reset_device"),
                      trim_reset_button |-> Get(table, "trim_reset_button"),
                      modifier |-> de_VirtualAxisTrimModifier(table)]]

(* toml::to_string_pretty(&config) *)
to_string_pretty(c) ==
    LET tables == [i \in 1..Len(c.rebinds) |-> ser_Rebind(c.rebinds[i])]
    IN  [ok |-> \A i \in 1..Len(tables) : tables[i].ok,
         doc |-> [name |-> c.name, default_shift_mode |-> c.default_shift_mode,
                  rebinds |-> [i \in 1..Len(tables) |-> tables[i].table]]]

(* toml::from_str(&string) *)
from_str(doc) ==
    LET rebinds == [i \in 1..Len(doc.rebinds) |-> de_Rebind(doc.rebinds[i])]
    IN  [ok |-> \A i \in 1..Len(rebinds) : rebinds[i].ok,
         config |-> [name |-> doc.name, default_shift_mode |-> doc.default_shift_mode,
                     rebinds |-> [i \in 1..Len(rebinds) |-> rebinds[i].rebind]]]

(* Config::write_to_path: nothing is written when serializing fails *)
write_to_path(c, f) ==
    LET ser_toml == to_string_pretty(c)
    IN  IF ser_toml.ok THEN [ok |-> TRUE, file |-> [exists |-> TRUE, doc |-> ser_toml.doc]]
        ELSE [ok |-> FALSE, file |-> f]

(* Config::read_from_path *)
read_from_path(f) ==
    IF ~f.exists THEN [ok |-> FALSE, config |-> <<>>]
    ELSE from_str(f.doc)

Push(ops, op) == IF Len(ops) < 2 THEN Append(ops, op) ELSE <<ops[2], op>>

(* Input::save_rebinds: the rebinds of the processor, as they are, written  *)
(* as one Config *)
save_rebinds ==
    /\ \E written \in {write_to_path(config, file)} :
         /\ file' = written.file
         /\ result' = IF written.ok THEN "saved" ELSE "save_err"
    /\ trail' = Push(trail, "save")
    /\ UNCHANGED <<config, active_shift_mode, actions_order, rebinds_order, physical_devices,
                   virtual_devices, time, last_poll_time, last_plot_time, vjoy, log, hist, probe>>

(* Input::load_rebinds: a configuration that cannot be read changes nothing *)
load_rebinds ==
    /\ \E read \in {read_from_path(file)} :
         IF read.ok
         THEN /\ config' = read.config
              /\ active_shift_mode' = read.config.default_shift_mode
              /\ hist' = [i \in 1..Len(read.config.rebinds) |-> NoHist]
              /\ log' = <<>>
              /\ result' = "loaded"
         ELSE /\ result' = "load_err"
              /\ UNCHANGED <<config, active_shift_mode, hist, log>>
    /\ trail' = Push(trail, "load")
    /\ UNCHANGED <<actions_order, rebinds_order, physical_devices, virtual_devices, time,
                   last_poll_time, last_plot_time, vjoy, file, probe>>

ConfigsSaved == {ConfigToggle, ConfigInterval, ConfigCascade}

InitConfig ==
    /\ InitWith(ConfigsSaved)
    /\ actions_order = <<"D1", "D2">>
    /\ rebinds_order = <<"D1", "D2">>

TickConfig == Input_update(MaxTimeConfig)

NextConfig == TickConfig \/ save_rebinds \/ load_rebinds

SpecConfig == InitConfig /\ [][NextConfig]_vars

-----------------------------------------------------------------------------
(* apply_two_buttons_to_axis_modifier.  coefficient counts 1/CoefDen and    *)
(* delta_t 1/100 s; `as i32` truncates toward zero.                         *)

CoefDen == 100
AxisCenter == 16384

Trunc(n, d) == IF n >= 0 THEN n \div d ELSE -((-n) \div d)
(* distance <= delta as u32: a negative delta wraps above every distance *)
LeAsU32(distance, delta) == IF delta < 0 THEN TRUE ELSE distance <= delta
Max(a, b) == IF a >= b THEN a ELSE b
Signum(x) == IF x > 0 THEN 1 ELSE IF x < 0 THEN -1 ELSE 0

Linear(coefficient, keep_value) ==
    [modifier |-> "Linear", coefficient |-> coefficient, keep_value |-> keep_value]

LinearDelta(coefficient, delta_t) == Trunc(coefficient * AxisMax * delta_t, CoefDen * 100)

(* Click { coefficient, last_input_neg, last_input_pos } *)
Click(coefficient) ==
    [modifier |-> "Click", coefficient |-> coefficient,
     last_input_neg |-> FALSE, last_input_pos |-> FALSE]

I32Max == 2147483647
I32Min == -I32Max - 1

(* (coefficient * 32767.0) as i32: truncates, and saturates at the ends of  *)
(* i32.  coefficient * 32767 / CoefDen is taken apart to stay within i32 *)
ClickDelta(coefficient) ==
    LET whole == Abs(coefficient) \div CoefDen
        part == ((Abs(coefficient) % CoefDen) * AxisMax) \div CoefDen
        magnitude == IF whole > I32Max \div AxisMax THEN I32Max ELSE whole * AxisMax + part
    IN  IF coefficient >= 0 THEN magnitude ELSE -magnitude

(* a + b in i32 for b >= 0, without overflow checks: wraps around *)
WrappingAdd(a, b) == IF a > 0 /\ b > I32Max - a THEN I32Min + (a - (I32Max - b) - 1) ELSE a + b

(* a + b overflows i32, b >= 0: a build with overflow checks panics here *)
AddOverflows(a, b) == a > 0 /\ b > I32Max - a

apply_two_buttons_to_axis_modifier_overshoot(input_neg, input_pos, output, modifier, delta_t) ==
    LET delta == LinearDelta(modifier.coefficient, delta_t)
        value == IF input_neg = input_pos
                 THEN output - Max(delta, 1) * Signum(output - AxisCenter)
                 ELSE IF input_neg THEN output - Max(delta, 1) ELSE output + Max(delta, 1)
    IN  [value |-> Clamp(value, 0, AxisMax), modifier |-> modifier]

apply_two_buttons_to_axis_modifier(input_neg, input_pos, output, modifier, delta_t) ==
    IF modifier.modifier = "Absolute"
    THEN [value |-> Clamp(IF input_neg /\ ~input_pos THEN 0
                          ELSE IF input_pos /\ ~input_neg THEN AxisMax ELSE AxisCenter,
                          0, AxisMax),
          modifier |-> modifier]
    ELSE IF modifier.modifier = "Click"
    THEN LET min_change == 1
             delta == ClickDelta(modifier.coefficient)
             should_click_neg == input_neg /\ input_neg # modifier.last_input_neg
             should_click_pos == input_pos /\ input_pos # modifier.last_input_pos
             value1 == IF should_click_neg THEN output - Max(delta, min_change) ELSE output
             value2 == IF should_click_pos THEN WrappingAdd(value1, Max(delta, min_change))
                       ELSE value1
         IN  [value |-> Clamp(value2, 0, AxisMax),
              modifier |-> [modifier EXCEPT !.last_input_neg = input_neg,
                                            !.last_input_pos = input_pos]]
    ELSE LET current_output_value == output
             min_change == 1
             delta == LinearDelta(modifier.coefficient, delta_t)
             center_distance == Abs(AxisCenter - current_output_value)
             value ==
                IF input_neg /\ ~input_pos THEN current_output_value - Max(delta, min_change)
                ELSE IF input_pos /\ ~input_neg THEN current_output_value + Max(delta, min_change)
                ELSE IF input_neg /\ input_pos THEN current_output_value
                ELSE IF LeAsU32(center_distance, delta) THEN AxisCenter
                ELSE current_output_value
                     - Max(delta, min_change) * Signum(current_output_value - AxisCenter)
         IN  IF ~input_neg /\ ~input_pos /\ modifier.keep_value
             THEN [value |-> current_output_value, modifier |-> modifier]
             ELSE [value |-> Clamp(value, 0, AxisMax), modifier |-> modifier]

(* The modifier on its own: a virtual axis driven by one Linear modifier *)
MaxHolds == 1
(* start values over the whole axis with the coefficients of the slider,   *)
(* start values near the centre with coefficients that give a step of 1    *)
StartCases == ({0, 13107, 17384, 32767} \X {25, 100, 1000})
              \cup ({16370, 16383, 16384, 16385, 16400} \X {0, 1})
DeltaTs == {2, 10}

InitTwoButtons ==
    /\ InitProcessor({ConfigMomentary})
    /\ actions_order = <<"D1", "D2">>
    /\ rebinds_order = <<"D1", "D2">>
    /\ \E case \in StartCases : \E k \in BOOLEAN :
         probe = [value |-> case[1], modifier |-> Linear(case[2], k), holds |-> 0, acted |-> FALSE,
                  input_neg |-> FALSE, input_pos |-> FALSE, before |-> case[1], delta_t |-> 0]

TwoButtonsEvaluate(input_neg, input_pos, delta_t) ==
    LET m == apply_two_buttons_to_axis_modifier(input_neg, input_pos, probe.value,
                                                probe.modifier, delta_t)
    IN  /\ probe' = [probe EXCEPT !.value = m.value, !.modifier = m.modifier, !.acted = TRUE,
                                  !.holds = IF input_neg \/ input_pos THEN @ + 1 ELSE @,
                                  !.input_neg = input_neg, !.input_pos = input_pos,
                                  !.before = probe.value, !.delta_t = delta_t]
        /\ UNCHANGED <<config, active_shift_mode, actions_order, rebinds_order,
                       physical_devices, virtual_devices, time, last_poll_time, last_plot_time, vjoy, trail,
                       result, log, hist, file>>

HeldTick ==
    /\ probe.holds < MaxHolds
    /\ \E delta_t \in DeltaTs : \E input_neg, input_pos \in BOOLEAN :
         (input_neg \/ input_pos) /\ TwoButtonsEvaluate(input_neg, input_pos, delta_t)

ReleasedTick == \E delta_t \in DeltaTs : TwoButtonsEvaluate(FALSE, FALSE, delta_t)

NextTwoButtons == HeldTick \/ ReleasedTick

SpecTwoButtons == InitTwoButtons /\ [][NextTwoButtons]_vars /\ WF_vars(ReleasedTick)

-----------------------------------------------------------------------------
(* apply_axis_modifier.  deadzone_center, clamp_min, clamp_max and offset   *)
(* count 1/ParamDen, linearity counts 1/LinDen.  With count samples in the  *)
(* averaging buffer the intermediate values are kept as integers counting   *)
(* 1/(count * ParamDen), so that the mean and the products with the         *)
(* parameters are exact.                                                    *)

ParamDen == 100
LinDen == 10
AxisMin == -32768

AxisParams(deadzone_center, clamp_min, clamp_max, invert, linearity, offset, avg_filter) ==
    [deadzone_center |-> deadzone_center, clamp_min |-> clamp_min, clamp_max |-> clamp_max,
     invert |-> invert, linearity |-> linearity, offset |-> offset,
     avg_filter |-> avg_filter, avg_data |-> [head |-> 0, data |-> <<>>]]

(* AxisParams::default *)
AxisParams_default == AxisParams(0, 0, ParamDen, FALSE, LinDen, 0, 1)

(* AxisParams::new: the linearity is clamped to 0.1..10.0 *)
AxisParams_new(deadzone_center, clamp_min, clamp_max, invert, linearity, offset, avg_filter) ==
    AxisParams(deadzone_center, clamp_min, clamp_max, invert,
               Clamp(linearity, 1, 10 * LinDen), offset, avg_filter)

RECURSIVE SumSeq(_)
SumSeq(data) == IF data = <<>> THEN 0 ELSE Head(data) + SumSeq(Tail(data))

Resize(data, n) == [i \in 1..n |-> IF i <= Len(data) THEN data[i] ELSE 0]

(* Arguments of the square whose f32 result and exact result have the same  *)
(* floor *)
SquareInputs == {-16384, -1, 1, 181, 16383, 16384, 32766}

(* The exponents and arguments for which signum(o) * |o / 32767|^linearity  *)
(* * 32767 is computed here: o counts 1/den.  Any exponent at 0 and at      *)
(* +-32767, the exponents 0, 1 and 2 elsewhere *)
LinearityComputable(o, den, linearity) ==
    \/ linearity = 0
    \/ linearity > 0 /\ (o = 0 \/ Abs(o) = AxisMax * den)
    \/ linearity = LinDen
    \/ linearity = 2 * LinDen /\ o % den = 0 /\ (o \div den) \in SquareInputs

(* floor(offset_value.signum() * (offset_value / 32767.0).abs().powf(linearity) * 32767.0) *)
LinearityFloor_unsigned(o, den, linearity) ==
    IF linearity = 2 * LinDen
    THEN ((Abs(o) \div den) * (Abs(o) \div den)) \div AxisMax
    ELSE Abs(o) \div den

LinearityFloor(o, den, linearity) ==
    IF linearity = 0 THEN (IF o < 0 THEN -AxisMax ELSE AxisMax)
    ELSE IF o = 0 THEN 0
    ELSE IF Abs(o) = AxisMax * den THEN (IF o < 0 THEN -AxisMax ELSE AxisMax)
    ELSE IF linearity = LinDen THEN o \div den
    ELSE LET a == Abs(o) \div den
         IN  IF o > 0 THEN (a * a) \div AxisMax
             ELSE -((a * a + AxisMax - 1) \div AxisMax)

(* Everything of apply_axis_modifier before the linearity: the averaging    *)
(* buffer, invert, deadzone, clamp and offset *)
axis_offset_value(input, params) ==
    LET reset == params.avg_filter # Len(params.avg_data.data)
        head0 == IF reset THEN 0 ELSE params.avg_data.head
        data0 == IF reset THEN Resize(params.avg_data.data, params.avg_filter)
                 ELSE params.avg_data.data
        data1 == IF head0 >= Len(data0) THEN Append(data0, input)
                 ELSE [data0 EXCEPT ![head0 + 1] = input]
        head1 == IF head0 + 1 >= params.avg_filter THEN 0 ELSE head0 + 1
        count == Len(data1)
        input_f32 == SumSeq(data1) * ParamDen
        inverted_value == IF params.invert THEN -input_f32 ELSE input_f32
        deadzone_center_min == AxisMin * params.deadzone_center * count
        deadzone_center_max == AxisMax * params.deadzone_center * count
        deadzone_clamped_value ==
            IF inverted_value >= deadzone_center_min /\ inverted_value <= deadzone_center_max
            THEN 0 ELSE inverted_value
        clamp_min == (AxisMin * ParamDen + 32768 * params.clamp_min) * count
        clamp_max == AxisMax * params.clamp_max * count
        minmax_clamped_value ==
            IF deadzone_clamped_value <= clamp_min THEN AxisMin * ParamDen * count
            ELSE IF deadzone_clamped_value >= clamp_max THEN AxisMax * ParamDen * count
            ELSE deadzone_clamped_value
    IN  [offset_value |-> minmax_clamped_value + AxisMax * params.offset * count,
         den |-> count * ParamDen,
         params |-> [params EXCEPT !.avg_data = [head |-> head1, data |-> data1]]]

apply_axis_modifier(input, params) ==
    LET o == axis_offset_value(input, params)
    IN  [value |-> LinearityFloor(o.offset_value, o.den, params.linearity),
         params |-> o.params]

(* convert_axis_to_vjoy_range: (input + 32768) * 32767 / 65535 in i64,      *)
(* clamped to 0..32767; outside -32768..32767 the clamp decides *)
convert_axis_to_vjoy_range_no_shift(input) ==
    Clamp((input * AxisMax) \div (AxisMax - AxisMin), 0, AxisMax)

convert_axis_to_vjoy_range(input) ==
    LET low1 == AxisMin
        high1 == AxisMax
    IN  IF input >= high1 THEN AxisMax
        ELSE IF input <= low1 THEN 0
        ELSE Clamp(((input - low1) * AxisMax) \div (high1 - low1), 0, AxisMax)

(* AxisParams as a table: the derived Serialize emits the seven parameters  *)
(* and skips avg_data *)
ser_AxisParams(params) ==
    << <<"deadzone_center", params.deadzone_center>>, <<"clamp_min", params.clamp_min>>,
       <<"clamp_max", params.clamp_max>>, <<"invert", params.invert>>,
       <<"linearity", params.linearity>>, <<"offset", params.offset>>,
       <<"avg_filter", params.avg_filter>> >>

(* The derived Deserialize: every field is taken as the table gives it,     *)
(* avg_data is defaulted when absent *)
de_AxisParams(table) ==
    [deadzone_center |-> Get(table, "deadzone_center"), clamp_min |-> Get(table, "clamp_min"),
     clamp_max |-> Get(table, "clamp_max"), invert |-> Get(table, "invert"),
     linearity |-> Get(table, "linearity"), offset |-> Get(table, "offset"),
     avg_filter |-> Get(table, "avg_filter"),
     avg_data |-> IF Has(table, "avg_data") THEN Get(table, "avg_data")
                  ELSE [head |-> 0, data |-> <<>>]]

(* The modifier on its own: one AxisToAxis rebind evaluated once.  A case   *)
(* is an input and the linearity asked for, the other parameters neutral:   *)
(* every input with linearity 1, the square inputs with linearity 2, the    *)
(* ends and the centre with linearities inside and outside 0.1..10.0 *)
RawLinearities == {0, 1, 5, 100, 500}
EndInputs == {-AxisMax, 0, AxisMax}
AxisCases == ((AxisMin..AxisMax) \X {LinDen})
             \cup (SquareInputs \X {2 * LinDen})
             \cup (EndInputs \X RawLinearities)

InitAxis ==
    /\ InitProcessor({ConfigMomentary})
    /\ actions_order = <<"D1", "D2">>
    /\ rebinds_order = <<"D1", "D2">>
    /\ \E case \in AxisCases :
         probe = [stage |-> "raw", x |-> case[1], linearity |-> case[2], via |-> "none",
                  params |-> AxisParams_default, value |-> 0, written |-> 0]

AxisUnchanged ==
    UNCHANGED <<config, active_shift_mode, actions_order, rebinds_order, physical_devices,
                virtual_devices, time, last_poll_time, last_plot_time, vjoy, trail, result, log, hist, file>>

(* the rebind is built in code with AxisParams::new *)
IngestNew ==
    /\ probe.stage = "raw"
    /\ probe' = [probe EXCEPT !.stage = "params", !.via = "new",
                              !.params = AxisParams_new(0, 0, ParamDen, FALSE, probe.linearity, 0, 1)]
    /\ AxisUnchanged

(* the rebind is read from a configuration file that holds these parameters *)
IngestRead ==
    /\ probe.stage = "raw"
    /\ probe' = [probe EXCEPT !.stage = "params", !.via = "read",
                              !.params = de_AxisParams(ser_AxisParams(
                                  AxisParams(0, 0, ParamDen, FALSE, probe.linearity, 0, 1)))]
    /\ AxisUnchanged

(* RerouteRebind::process, AxisToAxis: apply_axis_modifier, then            *)
(* convert_axis_to_vjoy_range, then output.set *)
AxisEvaluate ==
    /\ probe.stage = "params"
    /\ LinearityComputable(axis_offset_value(probe.x, probe.params).offset_value,
                           axis_offset_value(probe.x, probe.params).den, probe.params.linearity)
    /\ \E m \in {apply_axis_modifier(probe.x, probe.params)} :
         probe' = [probe EXCEPT !.stage = "done", !.params = m.params, !.value = m.value,
                                !.written = convert_axis_to_vjoy_range(m.value)]
    /\ AxisUnchanged

NextAxis == IngestNew \/ IngestRead \/ AxisEvaluate

SpecAxis == InitAxis /\ [][NextAxis]_vars

-----------------------------------------------------------------------------
(* The validators with their failure kinds.  `*src_button as usize - 1`    *)
(* with src_button = 0 overflows: a build with overflow checks panics, a    *)
(* build without wraps to usize::MAX, which is past the end of any Vec.     *)

(* Iterator::nth(index) with index = channel - 1 *)
nth(items, channel, overflow_checks) ==
    IF channel = 0
    THEN (IF overflow_checks THEN [kind |-> "panic", val |-> FALSE]
          ELSE [kind |-> "None", val |-> FALSE])
    ELSE IF channel <= Len(items) THEN [kind |-> "Some", val |-> items[channel]]
    ELSE [kind |-> "None", val |-> FALSE]

(* the closure of and_then runs for a device that find() returned *)
validate_value_physical_button_result(devs, src_device, src_button, overflow_checks) ==
    IF src_device \in DOMAIN devs /\ devs[src_device].present
    THEN LET button == nth(devs[src_device].buttons, src_button, overflow_checks)
         IN  IF button.kind = "Some" THEN [kind |-> "Ok", val |-> button.val]
             ELSE IF button.kind = "panic" THEN button
             ELSE [kind |-> "RebindValidatePhysicalButtonFailed", val |-> FALSE]
    ELSE [kind |-> "RebindValidatePhysicalButtonFailed", val |-> FALSE]

(* One lookup on its own: a snapshot, a GUID that may be empty or unknown,  *)
(* a channel from 0 to one past the largest count, and the build *)
LookupGuids == Guids \cup {"", "D9"}
MaxChannel == 3

InitLookup ==
    /\ InitProcessor({ConfigTwoDevices})
    /\ actions_order = <<"D1", "D2">>
    /\ rebinds_order = <<"D1", "D2">>
    /\ \E src_device \in LookupGuids : \E src_button \in 0..MaxChannel :
       \E snapshot \in Snapshots(config) : \E overflow_checks \in BOOLEAN :
         probe = [done |-> FALSE, devs |-> snapshot, src_device |-> src_device,
                  src_button |-> src_button, overflow_checks |-> overflow_checks,
                  kind |-> "none", val |-> FALSE]

Lookup ==
    /\ ~probe.done
    /\ \E r \in {validate_value_physical_button_result(probe.devs, probe.src_device,
                        probe.src_button, probe.overflow_checks)} :
         probe' = [probe EXCEPT !.done = TRUE, !.kind = r.kind, !.val = r.val]
    /\ UNCHANGED <<config, active_shift_mode, actions_order, rebinds_order, physical_devices,
                   virtual_devices, time, last_poll_time, last_plot_time, vjoy, trail, result,
                   log, hist, file>>

NextLookup == Lookup

SpecLookup == InitLookup /\ [][NextLookup]_vars

-----------------------------------------------------------------------------
(* LogicalRebind::process on its own: one logical rebind with mask K on     *)
(* button 1 of D1, evaluated once on the live mask M *)
LogicalVariants == {"MomentaryEnableShiftMode", "MomentaryDisableShiftMode"}

InitLogical ==
    /\ InitProcessor({ConfigMomentary})
    /\ actions_order = <<"D1", "D2">>
    /\ rebinds_order = <<"D1", "D2">>
    /\ \E M \in 0..MaskMax : \E K \in 0..MaskMax : \E variant \in LogicalVariants :
       \E input \in BOOLEAN :
         probe = [done |-> FALSE, M |-> M, K |-> K, variant |-> variant, input |-> input,
                  ok |-> FALSE, mask |-> M]

LogicalEvaluate ==
    /\ ~probe.done
    /\ \E r \in {LogicalRebind_process(
                     Logical("Shift", 0, probe.variant, "D1", 1, probe.K),
                     Snapshot(probe.input, FALSE, TRUE, FALSE), probe.M)} :
         probe' = [probe EXCEPT !.done = TRUE, !.ok = r.ok, !.mask = r.mask]
    /\ UNCHANGED <<config, active_shift_mode, actions_order, rebinds_order, physical_devices,
                   virtual_devices, time, last_poll_time, last_plot_time, vjoy, trail, result,
                   log, hist, file>>

SpecLogical == InitLogical /\ [][LogicalEvaluate]_vars

-----------------------------------------------------------------------------
(* Everything that writes a virtual axis.  One rebind drives one virtual    *)
(* axis over a few ticks; the modifier keeps its state between them.        *)

(* apply_merge_axes_modifier, Add: input_0.saturating_add(input_1) *)
apply_merge_axes_modifier(input_0, input_1, modifier) == Clamp(input_0 + input_1, I32Min, I32Max)

TrimLinear(value_normalized) ==
    [modifier |-> "Linear", params |-> VirtualAxisTrimParams(value_normalized)]

MaxWrites == 3
AxisInputs == {AxisMin, -1, 0, 1, AxisMax}
AxisStarts == {0, AxisCenter, AxisMax}

(* parameters that push the intermediate value out of -32768..32767, a      *)
(* deadzone, a narrowed clamp, two exponents and a two-sample filter *)
AxisToAxisModifiers ==
    { [modifier |-> "Parameterized", params |-> AxisParams(dz, c[1], c[2], inv, lin, off, avg)] :
        dz \in {0, 50}, c \in {<<0, ParamDen>>, <<50, 50>>}, inv \in BOOLEAN,
        lin \in {0, LinDen}, off \in {-ParamDen, 0, ParamDen}, avg \in {1, 2} }

(* the last Click coefficient makes (coefficient * 32767.0) as i32 saturate *)
TwoButtonsModifiers ==
    {[modifier |-> "Absolute"]}
    \cup {Linear(c, k) : c \in {0, 100, 1000}, k \in BOOLEAN}
    \cup {Click(c) : c \in {0, 50, 1000, 7000000}}

TrimModifiers == {TrimClick(50), TrimClick(100), TrimClick(150), TrimLinear(100), TrimLinear(1000)}

Writers ==
    {[kind |-> "AxisToAxis", modifier |-> m] : m \in AxisToAxisModifiers}
    \cup {[kind |-> "MergeAxes", modifier |-> [modifier |-> "Add"]]}
    \cup {[kind |-> "TwoButtonsToAxis", modifier |-> m] : m \in TwoButtonsModifiers}
    \cup {[kind |-> "VirtualAxisApplyButtonTrim", modifier |-> m] : m \in TrimModifiers}

InitWrites ==
    /\ InitProcessor({ConfigMomentary})
    /\ actions_order = <<"D1", "D2">>
    /\ rebinds_order = <<"D1", "D2">>
    /\ \E writer \in Writers : \E start \in AxisStarts : \E overflow_checks \in BOOLEAN :
         probe = [kind |-> writer.kind, modifier |-> writer.modifier, axis |-> start,
                  writes |-> 0, value |-> 0, panic |-> FALSE, before |-> writer.modifier,
                  input |-> start,
                  trim_neg |-> FALSE, trim_pos |-> FALSE, trim_reset |-> FALSE,
                  overflow_checks |-> overflow_checks /\ writer.kind = "TwoButtonsToAxis"]

CanWrite(kind) == probe.kind = kind /\ probe.writes < MaxWrites /\ ~probe.panic

(* RerouteRebind::process, AxisToAxis *)
WriteAxisToAxis ==
    /\ CanWrite("AxisToAxis")
    /\ \E input \in AxisInputs :
       \E o \in {axis_offset_value(input, probe.modifier.params)} :
         /\ LinearityComputable(o.offset_value, o.den, probe.modifier.params.linearity)
         /\ \E m \in {apply_axis_modifier(input, probe.modifier.params)} :
              probe' = [probe EXCEPT !.modifier.params = m.params, !.value = m.value,
                                     !.axis = convert_axis_to_vjoy_range(m.value),
                                     !.writes = @ + 1]
    /\ UNCHANGED <<config, active_shift_mode, actions_order, rebinds_order, physical_devices,
                   virtual_devices, time, last_poll_time, last_plot_time, vjoy, trail, result,
                   log, hist, file>>

(* RerouteRebind::process, MergeAxes *)
WriteMergeAxes ==
    /\ CanWrite("MergeAxes")
    /\ \E input_0 \in AxisInputs : \E input_1 \in AxisInputs :
       \E modified_state \in {apply_merge_axes_modifier(input_0, input_1, probe.modifier)} :
         probe' = [probe EXCEPT !.value = modified_state, !.writes = @ + 1,
                                !.axis = convert_axis_to_vjoy_range(modified_state)]
    /\ UNCHANGED <<config, active_shift_mode, actions_order, rebinds_order, physical_devices,
                   virtual_devices, time, last_poll_time, last_plot_time, vjoy, trail, result,
                   log, hist, file>>

(* the Click addition overflows i32 *)
ClickOverflows(input_neg, input_pos, output, modifier) ==
    /\ modifier.modifier = "Click"
    /\ input_pos /\ input_pos # modifier.last_input_pos
    /\ AddOverflows(IF input_neg /\ input_neg # modifier.last_input_neg
                    THEN output - Max(ClickDelta(modifier.coefficient), 1) ELSE output,
                    Max(ClickDelta(modifier.coefficient), 1))

(* RerouteRebind::process, TwoButtonsToAxis: with overflow checks an        *)
(* overflowing addition panics and nothing is written *)
WriteTwoButtonsToAxis ==
    /\ CanWrite("TwoButtonsToAxis")
    /\ \E input_neg \in BOOLEAN : \E input_pos \in BOOLEAN : \E delta_t \in DeltaTs :
         IF probe.overflow_checks /\ ClickOverflows(input_neg, input_pos, probe.axis, probe.modifier)
         THEN probe' = [probe EXCEPT !.panic = TRUE]
         ELSE \E m \in {apply_two_buttons_to_axis_modifier(input_neg, input_pos, probe.axis,
                                                            probe.modifier, delta_t)} :
                probe' = [probe EXCEPT !.modifier = m.modifier, !.value = m.value,
                                       !.axis = m.value, !.writes = @ + 1]
    /\ UNCHANGED <<config, active_shift_mode, actions_order, rebinds_order, physical_devices,
                   virtual_devices, time, last_poll_time, last_plot_time, vjoy, trail, result,
                   log, hist, file>>

(* VirtualRebind::process, VirtualAxisApplyButtonTrim *)
WriteTrim ==
    /\ CanWrite("VirtualAxisApplyButtonTrim")
    /\ \E trim_neg \in BOOLEAN : \E trim_pos \in BOOLEAN : \E trim_reset \in BOOLEAN :
       \E delta_t \in DeltaTs :
       \E m \in {apply_virtual_axis_trim_modifier(probe.axis, trim_neg, trim_pos, trim_reset,
                                                   delta_t, probe.modifier)} :
         probe' = [probe EXCEPT !.modifier = m.modifier, !.value = m.value, !.axis = m.value,
                                !.writes = @ + 1, !.before = probe.modifier,
                                !.input = probe.axis, !.trim_neg = trim_neg, !.trim_pos = trim_pos,
                                !.trim_reset = trim_reset]
    /\ UNCHANGED <<config, active_shift_mode, actions_order, rebinds_order, physical_devices,
                   virtual_devices, time, last_poll_time, last_plot_time, vjoy, trail, result,
                   log, hist, file>>

NextWrites == WriteAxisToAxis \/ WriteMergeAxes \/ WriteTwoButtonsToAxis \/ WriteTrim

SpecWrites == InitWrites /\ [][NextWrites]_vars

-----------------------------------------------------------------------------
(* One evaluation of one rebind on its own, with references that resolve    *)
(* and references that do not: an unknown or disconnected device, a button  *)
(* or an axis past the device's count *)
EvaluatedRebinds ==
    {Logical("Shift", 0, "MomentaryEnableShiftMode", d, b, 128) : d \in {"D1", "D2", "D9"}, b \in {1, 3}}
    \cup {ButtonToButton("Button", 0, d, b, v, o, m) :
            d \in {"D1", "D2"}, b \in {1, 3}, v \in {1, 2}, o \in {1, NumVButtons + 1},
            m \in {Simple, Toggle, ActivationIntervalSimple(0, 5, Some(4)),
                   ActivationIntervalToggle(0, 5, None)}}
    \cup {VirtualAxisApplyButtonTrim("Trim", 0, a, n, p, r, TrimClick(50)) :
            a \in {1, NumVAxes + 1}, n \in {2, NumVButtons + 1}, p \in {1, NumVButtons + 1},
            r \in {3, NumVButtons + 1}}

VirtualStates ==
    {[id \in {1} |-> [buttons |-> [b \in 1..NumVButtons |-> IF b = 1 THEN b1 ELSE "Released"],
                      axes |-> [a \in 1..NumVAxes |-> axis]]] :
        b1 \in {"Pressed", "Released"}, axis \in {0, AxisCenter}}

InitEvaluate ==
    /\ InitProcessor({ConfigTwoDevices})
    /\ actions_order = <<"D1", "D2">>
    /\ rebinds_order = <<"D1", "D2">>
    /\ \E rebind \in EvaluatedRebinds : \E devs \in Snapshots(config) :
       \E vdevs \in VirtualStates : \E mask \in {0, 128} :
         probe = [done |-> FALSE, ok |-> FALSE,
                  before |-> [rebind |-> rebind, vdevs |-> vdevs, mask |-> mask],
                  after |-> [rebind |-> rebind, vdevs |-> vdevs, mask |-> mask],
                  devs |-> devs]

EvaluateLogical ==
    /\ ~probe.done /\ probe.before.rebind.rebind_type = "Logical"
    /\ \E r \in {LogicalRebind_process(probe.before.rebind, probe.devs, probe.before.mask)} :
         probe' = [probe EXCEPT !.done = TRUE, !.ok = r.ok, !.after.mask = r.mask]
    /\ UNCHANGED <<config, active_shift_mode, actions_order, rebinds_order, physical_devices,
                   virtual_devices, time, last_poll_time, last_plot_time, vjoy, trail, result,
                   log, hist, file>>

EvaluateReroute ==
    /\ ~probe.done /\ probe.before.rebind.rebind_type = "Reroute"
    /\ \E delta_t \in DeltaTs :
       \E r \in {RerouteRebind_process(probe.before.rebind, probe.devs, probe.before.vdevs,
                                        delta_t, delta_t)} :
         probe' = [probe EXCEPT !.done = TRUE, !.ok = r.ok, !.after.rebind = r.rebind,
                                !.after.vdevs = r.vdevs]
    /\ UNCHANGED <<config, active_shift_mode, actions_order, rebinds_order, physical_devices,
                   virtual_devices, time, last_poll_time, last_plot_time, vjoy, trail, result,
                   log, hist, file>>

EvaluateVirtual ==
    /\ ~probe.done /\ probe.before.rebind.rebind_type = "Virtual"
    /\ \E delta_t \in DeltaTs :
       \E r \in {VirtualRebind_process(probe.before.rebind, probe.before.vdevs, delta_t)} :
         probe' = [probe EXCEPT !.done = TRUE, !.ok = r.ok, !.after.rebind = r.rebind,
                                !.after.vdevs = r.vdevs]
    /\ UNCHANGED <<config, active_shift_mode, actions_order, rebinds_order, physical_devices,
                   virtual_devices, time, last_poll_time, last_plot_time, vjoy, trail, result,
                   log, hist, file>>

NextEvaluate == EvaluateLogical \/ EvaluateReroute \/ EvaluateVirtual

SpecEvaluate == InitEvaluate /\ [][NextEvaluate]_vars

-----------------------------------------------------------------------------
(* The averaging filter on its own: neutral parameters but for avg_filter,  *)
(* a few evaluations, and avg_filter changed between evaluations.  samples  *)
(* are the inputs received since avg_filter was set *)
MaxFilter == 3
MaxSamples == 4
FilterInputs == {-300, 100, AxisMax}

InitFilter ==
    /\ InitProcessor({ConfigMomentary})
    /\ actions_order = <<"D1", "D2">>
    /\ rebinds_order = <<"D1", "D2">>
    /\ \E k \in 1..MaxFilter :
         probe = [params |-> AxisParams_new(0, 0, ParamDen, FALSE, LinDen, 0, k),
                  samples |-> <<>>, changed |-> FALSE, fed |-> 0, den |-> 1, value |-> 0]

(* apply_axis_modifier with one more input *)
FilterEvaluate ==
    /\ Len(probe.samples) < MaxSamples
    /\ \E input \in FilterInputs :
       \E o \in {axis_offset_value(input, probe.params)} :
         /\ LinearityComputable(o.offset_value, o.den, probe.params.linearity)
         /\ probe' = [probe EXCEPT !.params = o.params, !.samples = Append(@, input),
                                   !.fed = o.offset_value, !.den = o.den,
                                   !.value = apply_axis_modifier(input, probe.params).value]
    /\ AxisUnchanged

(* AxisParams::widget: the slider sets avg_filter *)
FilterChange ==
    /\ ~probe.changed /\ probe.samples # <<>>
    /\ \E k \in 1..MaxFilter :
         /\ k # probe.params.avg_filter
         /\ probe' = [probe EXCEPT !.params.avg_filter = k, !.samples = <<>>, !.changed = TRUE]
    /\ AxisUnchanged

NextFilter == FilterEvaluate \/ FilterChange

SpecFilter == InitFilter /\ [][NextFilter]_vars

-----------------------------------------------------------------------------
(* Properties *)

Processed == result \in {"ok", "err"}
InLog(i) == \E k \in 1..Len(log) : log[k].idx = i
Btn(d, b) == physical_devices[d].buttons[b]
VBtn(b) == virtual_devices[1].buttons[b]
Requires(i) == config.rebinds[i].mode_mask
Satisfied(i) == BitAnd(active_shift_mode, Requires(i)) = Requires(i)

PhaseRank(phase) == IF phase = "Logical" THEN 1 ELSE IF phase = "Reroute" THEN 2 ELSE 3

(* C1: in every processed tick the log shows all logical evaluations before *)
(* any reroute evaluation and those before any virtual evaluation; every    *)
(* reroute and virtual rebind was gated with the mask left by the logical   *)
(* rebinds of this tick, every rebind that mask activates was evaluated     *)
(* wherever it stands in the list, and every virtual rebind read the        *)
(* buttons as the reroute rebinds of this tick left them.                   *)
C1_PhaseOrder ==
    Processed =>
        /\ \A j, k \in 1..Len(log) : j < k => PhaseRank(log[j].phase) <= PhaseRank(log[k].phase)
        /\ \A k \in 1..Len(log) : log[k].phase # "Logical" => log[k].mask = active_shift_mode
        /\ result = "ok" =>
            /\ \A i \in 1..Len(config.rebinds) :
                 IF config.rebinds[i].rebind_type = "Logical" THEN InLog(i)
                 ELSE InLog(i) <=> Satisfied(i)
            /\ \A k \in 1..Len(log) : (log[k].phase = "Virtual" /\ log[k].ok) =>
                 LET r == config.rebinds[log[k].idx]
                 IN  log[k].seen = << VBtn(r.trim_neg_button) = "Pressed",
                                      VBtn(r.trim_pos_button) = "Pressed",
                                      VBtn(r.trim_reset_button) = "Pressed" >>

(* The reroute listed before the logical rebinds runs in the tick that sets *)
(* its bit, and the trim sees what it and the reroute listed last wrote.    *)
C1_Witness ==
    /\ config.name = "Cascade" /\ result = "ok"
    /\ Btn("D1", 1) /\ Btn("D1", 2)
    /\ hist[1].eval_at = time /\ hist[1].rises = 1 /\ ~hist[1].prev_input
    /\ \E k \in 1..Len(log) : log[k].phase = "Virtual" /\ log[k].seen[2] /\ log[k].seen[3]

(* C2: a rebind with required mask R is active under the live mask M       *)
(* exactly when every bit set in R is set in M, that is (M & R) = R; a      *)
(* required mask of 0 is always active.                                     *)
C2_Gating ==
    probe.done =>
        /\ probe.active <=> (\A i \in 0..7 : Bit(probe.R, i) = 1 => Bit(probe.M, i) = 1)
        /\ probe.active <=> (BitAnd(probe.M, probe.R) = probe.R)
        /\ probe.R = 0 => probe.active

(* A required top bit is met by a mask holding it together with another bit *)
C2_Witness == probe.done /\ probe.R = 128 /\ probe.M = 129 /\ probe.active

(* C3: scenario 1.  After a tick with D.btn1 and D.btn2 pressed the mask is *)
(* 0b10000000 and V.btn2 is Pressed; after a tick with D.btn1 released and  *)
(* D.btn2 pressed the mask is 0 and V.btn2 is Released.                     *)
C3_MomentaryScenario ==
    (config.name = "Momentary" /\ result = "ok" /\ Btn("D1", 2)) =>
        IF Btn("D1", 1) THEN active_shift_mode = 128 /\ VBtn(2) = "Pressed"
        ELSE active_shift_mode = 0 /\ VBtn(2) = "Released"

(* C4: scenario 6.  With mask 0b00000001 at creation, a tick with D.btn1    *)
(* pressed ends with mask 0b10000000, has evaluated the reroute requiring   *)
(* 0b10000000 and has not evaluated the reroute requiring 0b00000001.       *)
C4_Cascade ==
    (config.name = "Cascade" /\ result = "ok" /\ Btn("D1", 1)) =>
        /\ active_shift_mode = 128
        /\ Requires(1) = 128 /\ InLog(1)
        /\ Requires(4) = 1 /\ ~InLog(4)

C4_Witness ==
    /\ config.name = "Cascade" /\ result = "ok" /\ Btn("D1", 1)
    /\ active_shift_mode = 128 /\ hist[1].eval_at = time /\ hist[4].eval_at # time

(* C5: a failed validation skips only that rebind: the tick is not aborted, *)
(* no failure is returned, and every other active rebind whose references   *)
(* resolve is evaluated.                                                    *)
Resolves(i) ==
    LET r == config.rebinds[i]
    IN  IF r.rebind_type = "Virtual" THEN TRUE
        ELSE /\ validate_value_physical_button(physical_devices, r.src_device, r.src_button).ok
             /\ r.rebind_type = "Reroute" =>
                  validate_handle_virtual_button(virtual_devices, r.dst_device, r.dst_button)

C5_FailureSkipsOnlyThatRebind ==
    Processed =>
        /\ result = "ok"
        /\ \A i \in 1..Len(config.rebinds) :
             (Resolves(i) /\ (config.rebinds[i].rebind_type = "Logical" \/ Satisfied(i)))
                => \E k \in 1..Len(log) : log[k].idx = i /\ log[k].ok

(* C6: inside a phase the rebinds are evaluated in list order, so of two    *)
(* reroutes writing one button the one later in the list decides its value. *)
C6_ListOrder ==
    Processed =>
        /\ \A j, k \in 1..Len(log) :
             (j < k /\ log[j].phase = log[k].phase) => log[j].idx < log[k].idx
        /\ (config.name = "TwoDevices" /\ result = "ok" /\ InLog(1) /\ InLog(2)) =>
             VBtn(1) = (IF Btn("D2", 1) THEN "Pressed" ELSE "Released")

(* The transient fields of a rebind put back to their defaults *)
Defaulted(rebind) ==
    IF rebind.rebind_type = "Logical" THEN rebind
    ELSE IF rebind.rebind_type = "Virtual"
    THEN [rebind EXCEPT !.modifier.params.accumulated = 0,
                        !.modifier.params.last_input_neg = FALSE,
                        !.modifier.params.last_input_pos = FALSE]
    ELSE IF rebind.modifier.modifier = "Simple" THEN rebind
    ELSE IF rebind.modifier.modifier = "Toggle" THEN [rebind EXCEPT !.modifier.last_input = FALSE]
    ELSE [rebind EXCEPT !.modifier.params.last_input = FALSE,
                        !.modifier.params.activation_start = 0,
                        !.modifier.params.activation_end = 0]

Persistent(c) == [c EXCEPT !.rebinds = [i \in 1..Len(c.rebinds) |-> Defaulted(c.rebinds[i])]]

(* C7: every configuration, also one whose rebinds carry runtime state, is  *)
(* written by a save, and reading back what was written gives the same      *)
(* name, default mask and rebinds in the same order with the same           *)
(* persistent parameters.                                                   *)
C7_RoundTrip ==
    (trail # <<>> /\ trail[Len(trail)] = "save" /\ result \in {"saved", "save_err"}) =>
        /\ result = "saved"
        /\ file.exists
        /\ read_from_path(file).ok
        /\ Persistent(read_from_path(file).config) = Persistent(config)

(* C8: after a save followed by a load every transient field of every       *)
(* rebind holds its default value.                                          *)
C8_TransientDefaultAfterLoad ==
    (trail = <<"save", "load">> /\ result \in {"loaded", "load_err"}) =>
        \A i \in 1..Len(config.rebinds) : config.rebinds[i] = Defaulted(config.rebinds[i])

(* C9: an evaluation of a Toggle flips the destination it reads exactly     *)
(* when its input is true and the input of its previous evaluation was      *)
(* false; over all its evaluations it flipped once per rising edge; a tick  *)
(* that completes leaves the value the Toggle wrote on the destination.     *)
IsToggle(i) ==
    /\ config.rebinds[i].rebind_type = "Reroute"
    /\ config.rebinds[i].modifier.modifier = "Toggle"

C10_SustainAfterRelease ==
    (config.name = "Interval" /\ hist[1].evaluated /\ hist[1].eval_at = time /\ Processed) =>
        LET h == hist[1]
            params == config.rebinds[1].modifier.params
            out == log[Len(log)].after
            held == h.release_at - h.press_at
        IN  /\ h.input => out = "Released"
            /\ (~h.input /\ h.press_at >= 0 /\ h.release_at > h.press_at
                /\ held >= params.interval_start /\ held < params.interval_end) =>
                   out = (IF h.eval_at < h.release_at + params.sustain.val
                          THEN "Pressed" ELSE "Released")

(* C11: ActivationIntervalSimple emits Pressed only while the input is      *)
(* released and after a press whose held duration, release time minus       *)
(* press time, lay inside the interval: never before the first press and    *)
(* never after a press held for a time outside the interval.                *)
C11_PressedOnlyAfterWindowedPress ==
    (config.name = "Interval" /\ Processed /\ hist[1].eval_at = time
     /\ log # <<>> /\ log[Len(log)].after = "Pressed") =>
        LET h == hist[1]
            params == config.rebinds[1].modifier.params
            held == h.release_at - h.press_at
        IN  /\ ~h.input
            /\ h.press_at >= 0 /\ h.release_at > h.press_at
            /\ held >= params.interval_start /\ held < params.interval_end

(* C12: Linear with keep_value false and neither button held moves the      *)
(* output toward 16384 by max(1, coef * 32767 * delta_t) without passing    *)
(* it, puts it on exactly 16384 when it is within one step, and leaves it   *)
(* there; so the output of an axis whose buttons stay released is           *)
(* eventually 16384 for good.                                               *)
ReleasedStepToCenter ==
    (probe.acted /\ ~probe.input_neg /\ ~probe.input_pos /\ ~probe.modifier.keep_value) =>
        LET step == Max(1, LinearDelta(probe.modifier.coefficient, probe.delta_t))
            distance == Abs(probe.before - AxisCenter)
        IN  /\ probe.before \in 0..AxisMax
            /\ IF distance <= step THEN probe.value = AxisCenter
               ELSE /\ probe.value = probe.before - step * Signum(probe.before - AxisCenter)
                    /\ Abs(probe.value - AxisCenter) = distance - step
                    /\ Signum(probe.value - AxisCenter) = Signum(probe.before - AxisCenter)

C12_ReturnToCenter ==
    /\ []ReleasedStepToCenter
    /\ <>[](probe.modifier.keep_value \/ probe.value = AxisCenter)

(* start 17384, coefficient 1.0, delta_t 0.1: the step is 3276 and one tick *)
(* puts the output on 16384 *)
C12_Witness ==
    /\ probe.acted /\ ~probe.input_neg /\ ~probe.input_pos /\ ~probe.modifier.keep_value
    /\ probe.before = 17384 /\ probe.modifier.coefficient = 100 /\ probe.delta_t = 10
    /\ LinearDelta(probe.modifier.coefficient, probe.delta_t) = 3276
    /\ probe.value = AxisCenter

(* C13: Click trim of 0.5 on an axis that starts at 0 with accumulator 0.   *)
(* The evaluation that sees the first rising edge of trim_pos leaves the    *)
(* accumulator at 0.5 and writes 16383; an evaluation with trim_reset       *)
(* pressed leaves the accumulator at 0 and writes 0; as long as no reset    *)
(* was pressed the accumulator is one step per rising edge of trim_pos,     *)
(* however long the button was held.                                        *)
C13_TrimClick ==
    (config.name = "Trim" /\ result = "ok" /\ last_poll_time = time) =>
        LET trim == config.rebinds[3].modifier.params
            e == log[Len(log)]
        IN  /\ e.phase = "Virtual" /\ e.ok
            /\ (hist[2].rises = 0 /\ hist[1].rises = 1 /\ hist[1].input /\ ~hist[1].prev_input) =>
                 (trim.accumulated = AccDen \div 2 /\ e.axis_out = 16383)
            /\ hist[2].input => (trim.accumulated = 0 /\ e.axis_out = 0)
            /\ hist[2].rises = 0 =>
                 trim.accumulated = trim.value_normalized * 100 * hist[1].rises

(* Parameters that are the neutral ones, whatever the averaging buffer holds *)
Neutral(params) == [params EXCEPT !.avg_data = [head |-> 0, data |-> <<>>]] = AxisParams_default

(* C14: with neutral axis parameters (linearity 1, offset 0, deadzone 0,   *)
(* clamp 0..1, not inverted, one sample) apply_axis_modifier returns its    *)
(* input, for every input in -32768..32767 *)
C14_NeutralIdentity ==
    (probe.stage = "done" /\ Neutral(probe.params)) => probe.value = probe.x

C14_Witness ==
    /\ probe.stage = "done" /\ Neutral(probe.params)
    /\ probe.x = AxisMin /\ probe.value = AxisMin

(* The evaluated case of the linearity scenario *)
SquareCase ==
    /\ probe.stage = "done" /\ probe.x = AxisCenter
    /\ [probe.params EXCEPT !.linearity = LinDen, !.avg_data = [head |-> 0, data |-> <<>>]]
           = AxisParams_default
    /\ probe.params.linearity = 2 * LinDen

(* C15 as stated: with linearity 2.0 and the other parameters neutral, the  *)
(* input 16384 makes apply_axis_modifier return 8191, and                   *)
(* convert_axis_to_vjoy_range of that result writes 20479 *)
C15_LinearityScenario == SquareCase => (probe.value = 8191 /\ probe.written = 20479)

(* C15 as the code computes it: the same input gives 8192                   *)
(* (16384 * 16384 / 32767 = 8192.25), and 20479 is written *)
C15_LinearityScenarioFloor == SquareCase => (probe.value = 8192 /\ probe.written = 20479)

C15_Witness == SquareCase /\ probe.value = 8192 /\ probe.written = 20479

(* C19: every AxisParams that reaches evaluation, built with               *)
(* AxisParams::new or read from a configuration, has a linearity within     *)
(* 0.1..10.0 *)
C19_LinearityClamped ==
    probe.stage = "done" => (probe.params.linearity >= 1 /\ probe.params.linearity <= 10 * LinDen)

(* C16: a call to Input::update with now - last_poll <= POLL_INTERVAL       *)
(* samples no physical device, runs no rebind, publishes nothing and leaves *)
(* last_poll and last_plot unchanged; so every tick that reaches            *)
(* RebindProcessor::process is passed a delta_t above POLL_INTERVAL *)
C16_IdleUpdate ==
    [][time' # time =>
         /\ time' - last_poll_time <= INPUT_POLL_INTERVAL =>
              /\ result' = "idle"
              /\ UNCHANGED <<physical_devices, config, active_shift_mode, virtual_devices,
                             log, hist, vjoy, last_poll_time, last_plot_time>>
         /\ result' # "idle" => time' - last_poll_time > INPUT_POLL_INTERVAL]_vars

C16_Witness ==
    /\ result = "idle" /\ time - last_poll_time = INPUT_POLL_INTERVAL
    /\ vjoy.updates = 1 /\ last_plot_time = last_poll_time /\ last_poll_time > 0

(* C17: publications follow processed ticks one to one and in order: every  *)
(* tick on which process is run is followed, before the next tick is        *)
(* processed, by exactly one publication of each virtual device carrying    *)
(* that tick's final virtual state, and nothing is published without a      *)
(* processed tick *)
C17_PublicationPerTick ==
    [][IF time' # time /\ result' # "idle"
       THEN vjoy' = [updates |-> vjoy.updates + 1, devices |-> virtual_devices']
       ELSE vjoy' = vjoy]_vars

(* The lookup resolves: the device is present and the channel is within   *)
(* its count *)
Resolvable == /\ probe.src_device \in DOMAIN probe.devs
              /\ probe.devs[probe.src_device].present
              /\ probe.src_button >= 1
              /\ probe.src_button <= Len(probe.devs[probe.src_device].buttons)

(* C18: a lookup of (device, channel) returns the value of the channel-th   *)
(* entry (1-based) iff the device is present and the channel is within the  *)
(* device's count; channel 0 or an empty GUID yields the Empty failure, any *)
(* other unresolved lookup a resolve failure; never an out-of-bounds        *)
(* access, an index underflow or the value of another channel *)
C18_Lookup ==
    probe.done =>
        /\ probe.kind = "Ok" <=> Resolvable
        /\ probe.kind = "Ok" => probe.val = probe.devs[probe.src_device].buttons[probe.src_button]
        /\ (probe.src_button = 0 \/ probe.src_device = "") =>
               probe.kind = "EmptyRebindOrInvalidID"
        /\ (~Resolvable /\ probe.src_button # 0 /\ probe.src_device # "") =>
               probe.kind = "RebindValidatePhysicalButtonFailed"
        /\ probe.kind # "panic"

(* C20: before the first tick after the processor is created with, or has  *)
(* loaded, a configuration c, the live shift-mode mask returned by          *)
(* get_active_shift_mode equals c.default_shift_mode *)
C20_DefaultShiftMode ==
    (result = "none" \/ result = "loaded") => active_shift_mode = config.default_shift_mode

(* The variant and the button decide whether the bits of K are set *)
SetsBits == (probe.variant = "MomentaryEnableShiftMode") = probe.input

(* C21: a logical rebind with mask K on the live mask M yields, for         *)
(* MomentaryEnableShiftMode, M | K when the button is pressed and M & ~K    *)
(* when released, for MomentaryDisableShiftMode M & ~K when pressed and     *)
(* M | K when released; the bits of M outside K are unchanged and no        *)
(* virtual channel is written *)
C21_LogicalMask ==
    probe.done =>
        /\ probe.ok
        /\ \A i \in 0..7 :
             Bit(probe.mask, i) = IF Bit(probe.K, i) = 1 THEN (IF SetsBits THEN 1 ELSE 0)
                                  ELSE Bit(probe.M, i)
        /\ probe.mask \in 0..MaskMax
        /\ \A b \in 1..NumVButtons : virtual_devices[1].buttons[b] = "Released"
        /\ \A a \in 1..NumVAxes : virtual_devices[1].axes[a] = 0

C21_Witness ==
    /\ probe.done /\ probe.variant = "MomentaryDisableShiftMode" /\ ~probe.input
    /\ probe.M = 165 /\ probe.K = 15 /\ probe.mask = 175

(* C22: after any sequence of ticks, every value written to a virtual axis  *)
(* by an AxisToAxis, MergeAxes, TwoButtonsToAxis or                         *)
(* VirtualAxisApplyButtonTrim rebind lies in 0..32767, whatever the inputs  *)
(* and the modifier parameters *)
C22_AxisRange == probe.axis >= 0 /\ probe.axis <= AxisMax

(* an AxisToAxis whose offset pushed the intermediate value past 32767 *)
C22_Witness ==
    /\ probe.kind = "AxisToAxis" /\ probe.writes = MaxWrites
    /\ probe.value > AxisMax /\ probe.axis = AxisMax

(* C23: when a device or channel reference of a rebind fails validation,    *)
(* that evaluation changes nothing: the shift-mode mask, every virtual      *)
(* channel and the rebind's own modifier state are as before it *)
C23_FailedEvaluation == (probe.done /\ ~probe.ok) => probe.after = probe.before

(* a Toggle whose source is pressed and whose destination does not resolve *)
C23_Witness ==
    /\ probe.done /\ ~probe.ok /\ probe.after = probe.before
    /\ probe.before.rebind.rebind_type = "Reroute"
    /\ probe.before.rebind.modifier.modifier = "Toggle"
    /\ probe.before.rebind.src_device = "D1" /\ probe.before.rebind.src_button = 1
    /\ probe.devs["D1"].buttons[1]
    /\ probe.before.rebind.dst_button = NumVButtons + 1

(* C24: ActivationIntervalToggle, no other rebind writing the destination:  *)
(* the destination flips on the first evaluation that observes the release  *)
(* of a press held for a time inside interval_start..interval_end, and on   *)
(* no other evaluation: not while held, not on later evaluations after the  *)
(* release, not after a press held for a time outside the interval *)
C24_IntervalToggle ==
    (config.name = "IntervalToggle" /\ hist[1].evaluated /\ hist[1].eval_at = time /\ Processed) =>
        LET h == hist[1]
            params == config.rebinds[1].modifier.params
            e == log[Len(log)]
            held == h.release_at - h.press_at
        IN  (e.after # e.before) <=>
               /\ ~h.input /\ h.prev_input /\ h.release_at = time
               /\ held >= params.interval_start /\ held < params.interval_end

(* a first press held inside the interval flipped the destination, a second *)
(* press held too short is released and the destination stays *)
C24_Witness ==
    /\ config.name = "IntervalToggle" /\ Processed /\ hist[1].eval_at = time
    /\ hist[1].rises = 2 /\ hist[1].flips = 1
    /\ ~hist[1].input /\ hist[1].prev_input
    /\ hist[1].release_at - hist[1].press_at < config.rebinds[1].modifier.params.interval_start
    /\ VBtn(1) = "Pressed"

C26_AveragingFilter ==
    probe.samples # <<>> =>
        LET k == probe.params.avg_filter
            n == Len(probe.samples)
            m == IF n < k THEN n ELSE k
        IN  /\ probe.fed * m = SumSeq(SubSeq(probe.samples, n - m + 1, n)) * probe.den
            /\ Len(probe.params.avg_data.data) <= k
            /\ probe.params.avg_data.head >= 0 /\ probe.params.avg_data.head < k

(* C27: in a tick in which a rebind's required mask is not satisfied by the *)
(* live mask, that rebind writes no virtual channel and its modifier state  *)
(* is left exactly as it was after its last active evaluation *)
C27_GatedOffFrame ==
    [][(time' # time /\ Processed') =>
         \A i \in 1..Len(config.rebinds) :
            (config.rebinds[i].rebind_type # "Logical" /\ ~Satisfied(i)') =>
                /\ config'.rebinds[i] = config.rebinds[i]
                /\ ~InLog(i)'
                /\ hist'[i] = hist[i]]_vars

(* the gated Toggle rebind keeps the latch of its last active evaluation    *)
(* over a tick in which its source button is released *)
C27_Witness ==
    /\ config.name = "Toggle" /\ result = "ok" /\ last_poll_time = time
    /\ ~Satisfied(2) /\ ~InLog(2)
    /\ config.rebinds[2].modifier.last_input /\ hist[2].input /\ hist[2].eval_at < time
    /\ ~Btn("D1", 1) /\ VBtn(3) = "Pressed"

(* Every logical rebind of the configuration is a MomentaryEnableShiftMode  *)
(* on bits clear in the default mask or a MomentaryDisableShiftMode on bits *)
(* set in it *)
MomentaryShape ==
    \A i \in 1..Len(config.rebinds) :
        LET r == config.rebinds[i]
        IN  r.rebind_type = "Logical" =>
              IF r.variant = "MomentaryEnableShiftMode"
              THEN BitAnd(config.default_shift_mode, r.shift_mask) = 0
              ELSE BitAnd(config.default_shift_mode, r.shift_mask) = r.shift_mask

(* The last tick ran to its end on a snapshot in which every source button  *)
(* of a logical rebind was readable and released *)
ReleasedTickDone ==
    /\ result = "ok" /\ last_poll_time = time
    /\ \A i \in 1..Len(config.rebinds) :
          LET r == config.rebinds[i]
          IN  r.rebind_type = "Logical" =>
                physical_devices[r.src_device].present /\ ~Btn(r.src_device, r.src_button)

(* C28: with logical rebinds that are MomentaryEnableShiftMode on bits      *)
(* clear in the default mask and MomentaryDisableShiftMode on bits set in   *)
(* it, a tick in which every source button is released ends with the live   *)
(* mask equal to the default mask, after any sequence of earlier ticks *)
C28_ReleasedRestoresDefault ==
    (MomentaryShape /\ ReleasedTickDone) => active_shift_mode = config.default_shift_mode

(* What the processor restores is the mask it was created with *)
ReleasedRestoresNewShiftMode ==
    (MomentaryShape /\ ReleasedTickDone) => active_shift_mode = NewShiftMode

(* The accumulator of the trim rebind of ConfigTrim *)
TrimAccumulated == config.rebinds[3].modifier.params.accumulated

(* C29: over consecutive ticks in which the trim accumulator does not       *)
(* change and no reroute rebind writes the trimmed axis, the value          *)
(* published for that axis is the same on every tick: the trim rebind does  *)
(* not re-add its accumulator to its own previous output *)
C29_TrimAppliedOnce ==
    [][(/\ config.name = "Trim" /\ result = "ok"
        /\ result' = "ok" /\ last_poll_time' = time' /\ time' # time
        /\ TrimAccumulated' = TrimAccumulated) =>
           vjoy'.devices[1].axes[1] = vjoy.devices[1].axes[1]]_vars

(* What the last trim evaluation would have written with accumulator 0 *)
TrimmedWithZero ==
    apply_virtual_axis_trim_modifier(probe.input, FALSE, FALSE, TRUE, 1, probe.before).value

(* C30: for every axis input in 0..32767 the value                         *)
(* apply_virtual_axis_trim_modifier writes with a negative accumulator is   *)
(* never greater than the value it writes with accumulator 0, and the value *)
(* written with a positive accumulator is never smaller *)
C30_TrimMonotone ==
    (probe.kind = "VirtualAxisApplyButtonTrim" /\ probe.writes > 0) =>
        /\ probe.modifier.params.accumulated < 0 => probe.value <= TrimmedWithZero
        /\ probe.modifier.params.accumulated > 0 => probe.value >= TrimmedWithZero

(* The half of the direction property that concerns a positive accumulator *)
TrimPosNeverLowers ==
    (probe.kind = "VirtualAxisApplyButtonTrim" /\ probe.writes > 0) =>
        (probe.modifier.params.accumulated > 0 => probe.value >= TrimmedWithZero)

====
